---- MODULE Spec2Model ----
(***************************************************************************)
(* Model of the custom Checkov rule set of cdk-monitoring                  *)
(* (src/.checkov/custom_checks) and of the step scripts that bootstrap its *)
(* Kubernetes nodes (src/kubernetes-app/k8s-bootstrap/boot/steps).         *)
(*                                                                         *)
(* A rule is a pure function scan_resource_conf(conf) from one parsed      *)
(* CloudFormation resource to a CheckResult.  The resource is a JSON-like   *)
(* tree; the model keeps Python's dynamic typing: every value carries its   *)
(* type tag, and an operation Python would refuse (a .get on a string, an   *)
(* iteration over None) makes the rule end in RAISED, an exception leaving  *)
(* scan_resource_conf.                                                      *)
(*                                                                         *)
(* Strings are TLA+ strings; TLC evaluates Len, SubSeq and \o on them, so   *)
(* substring tests, regular expressions, int() and str() are computed      *)
(* character by character.                                                 *)
(***************************************************************************)
EXTENDS Integers, Sequences, FiniteSets, TLC

VARIABLES
    conf,       \* the resource declaration handed to the rule (a dict value)
    rule,       \* the id of the rule under evaluation
    verdicts,   \* the results of the successive evaluations of (rule, conf)
    userdata,   \* the property subtree handed to the intrinsic resolver
    extracted,  \* the results of the successive resolutions of userdata
    pc,         \* where the running step script is
    locals,     \* the local variables and object fields of the running script
    files,      \* the marker files that exist on the node
    status_file,\* the steps listed in STATUS_FILE, each <<step name, status>>
    ssm,        \* the SSM parameters written so far, each <<name, value>>
    trace,      \* what the script has called so far, in order
    returned    \* how each finished invocation ended

ruleVars == <<conf, rule, verdicts, userdata, extracted>>

bootVars == <<pc, locals, files, status_file, ssm, trace, returned>>

vars == <<conf, rule, verdicts, userdata, extracted,
          pc, locals, files, status_file, ssm, trace, returned>>

\* no step script is running
NoBoot ==
    /\ pc = ""
    /\ locals = <<>>
    /\ files = {}
    /\ status_file = <<>>
    /\ ssm = <<>>
    /\ trace = <<>>
    /\ returned = <<>>

\* no rule is under evaluation
NoRule ==
    /\ conf = [t |-> "null"]
    /\ rule = ""
    /\ verdicts = <<>>
    /\ userdata = [t |-> "null"]
    /\ extracted = <<>>

(***************************************************************************)
(* JSON-like values (the parsed template) with Python's type tags.         *)
(* A dict is the sequence of its <<key, value>> items in insertion order.  *)
(***************************************************************************)
VNull == [t |-> "null"]

VBool(b) == [t |-> "bool", b |-> b]

VInt(i) == [t |-> "int", i |-> i]

VStr(s) == [t |-> "str", s |-> s]

VList(l) == [t |-> "list", l |-> l]

VDict(d) == [t |-> "dict", d |-> d]

EmptyDict == VDict(<<>>)

EmptyList == VList(<<>>)

IsDict(v) == v.t = "dict"

IsList(v) == v.t = "list"

IsStr(v) == v.t = "str"

IsNone(v) == v.t = "null"

\* checkov.common.models.enums.CheckResult, and the exception outcome
PASSED == "PASSED"

FAILED == "FAILED"

UNKNOWN == "UNKNOWN"

RAISED == "RAISED"

(***************************************************************************)
(* Python built-ins the rules use.                                         *)
(***************************************************************************)
\* bool(v): None, False, 0, "", [] and {} are falsy
Truthy(v) ==
    CASE v.t = "null" -> FALSE
      [] v.t = "bool" -> v.b
      [] v.t = "int"  -> v.i # 0
      [] v.t = "str"  -> v.s # ""
      [] v.t = "list" -> v.l # <<>>
      [] v.t = "dict" -> v.d # <<>>

\* a == b: bool is an int subtype (False == 0, True == 1); otherwise structural
PyNum(v) == IF v.t = "bool" THEN (IF v.b THEN 1 ELSE 0) ELSE v.i

PyEq(a, b) ==
    IF a.t \in {"bool", "int"} /\ b.t \in {"bool", "int"}
    THEN PyNum(a) = PyNum(b)
    ELSE a = b

\* x in [c1, c2, ...] / x in (c1, ...): membership by ==
PyIn(x, cands) == \E i \in 1..Len(cands) : PyEq(x, cands[i])

HasKey(v, k) == \E i \in 1..Len(v.d) : v.d[i][1] = k

\* dict.get(k, default) of a dict value
Get(v, k, default) ==
    IF HasKey(v, k)
    THEN v.d[CHOOSE i \in 1..Len(v.d) : v.d[i][1] = k][2]
    ELSE default

\* dict.get(k): the default is None
Get0(v, k) == Get(v, k, VNull)

\* `for x in v`: a list yields its elements, a dict its keys, a str its
\* characters; None, bool and int are not iterable (TypeError)
Iterable(v) == v.t \in {"list", "dict", "str"}

Iter(v) ==
    CASE v.t = "list" -> v.l
      [] v.t = "dict" -> [i \in 1..Len(v.d) |-> VStr(v.d[i][1])]
      [] v.t = "str"  -> [i \in 1..Len(v.s) |-> VStr(SubSeq(v.s, i, i))]
      [] OTHER        -> <<>>

\* len(v): defined for str, list and dict (TypeError otherwise)
Sized(v) == v.t \in {"list", "dict", "str"}

PyLen(v) ==
    CASE v.t = "list" -> Len(v.l)
      [] v.t = "dict" -> Len(v.d)
      [] v.t = "str"  -> Len(v.s)
      [] OTHER        -> 0

(***************************************************************************)
(* Characters and substrings.                                              *)
(***************************************************************************)
\* s[i-1:i], s[i-1:] and s[i-1:j] of Python (1-based here), empty out of range
Ch(s, i) == IF 1 <= i /\ i <= Len(s) THEN SubSeq(s, i, i) ELSE ""

From(s, i) == IF i > Len(s) THEN "" ELSE SubSeq(s, i, Len(s))

Mid(s, i, j) == IF i > j \/ i > Len(s) THEN "" ELSE SubSeq(s, i, j)

DIGITS == "0123456789"

UPPERS == "ABCDEFGHIJKLMNOPQRSTUVWXYZ"

LOWERS == "abcdefghijklmnopqrstuvwxyz"

IndexIn(c, set) == CHOOSE i \in 1..Len(set) : Ch(set, i) = c

CharsOf(set) == {Ch(set, i) : i \in 1..Len(set)}

DigitChars == CharsOf(DIGITS)

UpperChars == CharsOf(UPPERS)

WordChars == CharsOf(DIGITS) \cup CharsOf(UPPERS) \cup CharsOf(LOWERS) \cup {"_"}

\* \d, \w and \s of Python's re for ASCII text
IsDigit(c) == c \in DigitChars

IsWord(c) == c \in WordChars

IsSpace(c) == c \in {" ", "\t", "\n", "\r", "\f"}

LowerOf == [c \in UpperChars |-> Ch(LOWERS, IndexIn(c, UPPERS))]

LowerCh(c) == IF c \in UpperChars THEN LowerOf[c] ELSE c

RECURSIVE Lower(_)
\* str.lower()
Lower(s) ==
    IF s = "" THEN ""
    ELSE IF Len(s) = 1 THEN LowerCh(s)
    ELSE Lower(Mid(s, 1, Len(s) \div 2)) \o Lower(From(s, Len(s) \div 2 + 1))

\* s[i:].startswith(lit), 1-based
StartsAt(s, i, lit) ==
    /\ i >= 1
    /\ i + Len(lit) - 1 <= Len(s)
    /\ SubSeq(s, i, i + Len(lit) - 1) = lit

\* the same, ignoring case (re.IGNORECASE on a literal)
StartsAtI(s, i, lit) ==
    /\ i >= 1
    /\ i + Len(lit) - 1 <= Len(s)
    /\ LowerCh(Ch(s, i)) = LowerCh(Ch(lit, 1))
    /\ Lower(SubSeq(s, i, i + Len(lit) - 1)) = Lower(lit)

StartsWith(s, lit) == StartsAt(s, 1, lit)

\* lit in s
Contains(s, lit) == \E i \in 1..(Len(s) - Len(lit) + 1) : StartsAt(s, i, lit)

ContainsI(s, lit) == \E i \in 1..(Len(s) - Len(lit) + 1) : StartsAtI(s, i, lit)

\* the first index >= i of s whose character is not whitespace (Len(s)+1 if none)
RECURSIVE SkipSpace(_, _)
SkipSpace(s, i) ==
    IF i <= Len(s) /\ IsSpace(Ch(s, i)) THEN SkipSpace(s, i + 1) ELSE i

\* the first index >= i of s whose character is not a word character
RECURSIVE SkipWord(_, _)
SkipWord(s, i) ==
    IF i <= Len(s) /\ IsWord(Ch(s, i)) THEN SkipWord(s, i + 1) ELSE i

\* the first index >= i of s whose character is not a digit
RECURSIVE SkipDigits(_, _)
SkipDigits(s, i) ==
    IF i <= Len(s) /\ IsDigit(Ch(s, i)) THEN SkipDigits(s, i + 1) ELSE i

\* str.strip()
RECURSIVE RStrip(_)
RStrip(s) ==
    IF s # "" /\ IsSpace(Ch(s, Len(s))) THEN RStrip(Mid(s, 1, Len(s) - 1)) ELSE s

Strip(s) == RStrip(From(s, SkipSpace(s, 1)))

(***************************************************************************)
(* int(x) and str(x).                                                      *)
(***************************************************************************)
\* the digits of an int literal: digits, single underscores between digits
IntBodyOk(b) ==
    /\ b # ""
    /\ IsDigit(Ch(b, 1))
    /\ IsDigit(Ch(b, Len(b)))
    /\ \A i \in 1..Len(b) : IsDigit(Ch(b, i)) \/ Ch(b, i) = "_"
    /\ \A i \in 1..(Len(b) - 1) : ~(Ch(b, i) = "_" /\ Ch(b, i + 1) = "_")

RECURSIVE DigitsValue(_, _)
DigitsValue(b, acc) ==
    IF b = "" THEN acc
    ELSE IF Ch(b, 1) = "_" THEN DigitsValue(From(b, 2), acc)
    ELSE DigitsValue(From(b, 2), 10 * acc + (IndexIn(Ch(b, 1), DIGITS) - 1))

\* int(s) for a str: [ok |-> FALSE] is ValueError
IntOfStr(s) ==
    LET x    == Strip(s)
        neg  == x # "" /\ Ch(x, 1) = "-"
        sign == x # "" /\ Ch(x, 1) \in {"-", "+"}
        body == IF sign THEN From(x, 2) ELSE x
    IN  IF IntBodyOk(body)
        THEN [ok |-> TRUE,
              v  |-> IF neg THEN 0 - DigitsValue(body, 0) ELSE DigitsValue(body, 0)]
        ELSE [ok |-> FALSE, v |-> 0]

\* int(x) inside `try: ... except (ValueError, TypeError)`: ok is FALSE when
\* int raises (a non-numeric str: ValueError; None, list, dict: TypeError)
PyInt(x) ==
    CASE x.t = "int"  -> [ok |-> TRUE, v |-> x.i]
      [] x.t = "bool" -> [ok |-> TRUE, v |-> IF x.b THEN 1 ELSE 0]
      [] x.t = "str"  -> IntOfStr(x.s)
      [] OTHER        -> [ok |-> FALSE, v |-> 0]

RECURSIVE NatToStr(_)
NatToStr(n) ==
    IF n < 10 THEN Ch(DIGITS, n + 1)
    ELSE NatToStr(n \div 10) \o Ch(DIGITS, (n % 10) + 1)

IntToStr(n) == IF n < 0 THEN "-" \o NatToStr(0 - n) ELSE NatToStr(n)

RECURSIVE PyRepr(_)
RECURSIVE ReprItems(_, _)
RECURSIVE ReprPairs(_, _)
\* repr(x); a str is assumed free of quotes, backslashes and control
\* characters, so that its repr is the text between single quotes
PyRepr(x) ==
    CASE x.t = "null" -> "None"
      [] x.t = "bool" -> IF x.b THEN "True" ELSE "False"
      [] x.t = "int"  -> IntToStr(x.i)
      [] x.t = "str"  -> "'" \o x.s \o "'"
      [] x.t = "list" -> "[" \o ReprItems(x.l, 1) \o "]"
      [] x.t = "dict" -> "{" \o ReprPairs(x.d, 1) \o "}"

ReprItems(l, i) ==
    IF i > Len(l) THEN ""
    ELSE PyRepr(l[i]) \o (IF i < Len(l) THEN ", " ELSE "") \o ReprItems(l, i + 1)

ReprPairs(d, i) ==
    IF i > Len(d) THEN ""
    ELSE "'" \o d[i][1] \o "': " \o PyRepr(d[i][2])
         \o (IF i < Len(d) THEN ", " ELSE "") \o ReprPairs(d, i + 1)

\* str(x)
PyStr(x) == IF x.t = "str" THEN x.s ELSE PyRepr(x)

(***************************************************************************)
(* sg_rules.py: security group hardening.                                  *)
(***************************************************************************)
MAX_PORT_RANGE == 1000

None == [some |-> FALSE, v |-> 0]

Some(n) == [some |-> TRUE, v |-> n]

\* _has_external_cidr without the security-group test: any CIDR is external
HasAnyCidr(r) ==
    \/ Truthy(Get(r, "CidrIp", VStr("")))
    \/ Truthy(Get(r, "CidrIpv6", VStr("")))

\* _has_external_cidr(rule): a CIDR source and no security-group source
_has_external_cidr(r) ==
    LET cidr      == Get(r, "CidrIp", VStr(""))
        cidr_ipv6 == Get(r, "CidrIpv6", VStr(""))
        has_sg    == \/ Truthy(Get0(r, "SourceSecurityGroupId"))
                     \/ Truthy(Get0(r, "SourceSecurityGroupName"))
    IN  (Truthy(cidr) \/ Truthy(cidr_ipv6)) /\ ~has_sg

\* _parse_ports(rule): (from_port, to_port) as ints, an absent field as
\* None, and (None, None) as soon as one int() raises
_parse_ports(r) ==
    LET from_port == Get0(r, "FromPort")
        to_port   == Get0(r, "ToPort")
        f         == PyInt(from_port)
        t         == PyInt(to_port)
    IN  IF (~IsNone(from_port) /\ ~f.ok) \/ (~IsNone(to_port) /\ ~t.ok)
        THEN <<None, None>>
        ELSE << IF IsNone(from_port) THEN None ELSE Some(f.v),
                IF IsNone(to_port) THEN None ELSE Some(t.v) >>

\* from_port is not None and to_port is not None and from_port <= port <= to_port
PortInRange(ports, port) ==
    /\ ports[1].some
    /\ ports[2].some
    /\ ports[1].v <= port
    /\ port <= ports[2].v

\* the SSH rule looking only at the first ingress rule of the group
NoSSHInFirstRule(c) ==
    LET properties == Get(c, "Properties", EmptyDict) IN
    IF ~Truthy(properties) THEN PASSED
    ELSE IF ~IsDict(properties) THEN RAISED
    ELSE LET ingress == Get(properties, "SecurityGroupIngress", EmptyList) IN
         IF ~Iterable(ingress) THEN RAISED
         ELSE LET rules == Iter(ingress) IN
              IF /\ rules # <<>>
                 /\ IsDict(rules[1])
                 /\ PortInRange(_parse_ports(rules[1]), 22)
              THEN FAILED
              ELSE PASSED

\* CKV_CUSTOM_SG_1
SecurityGroupNoSSH(c) ==
    LET properties == Get(c, "Properties", EmptyDict) IN
    IF ~Truthy(properties) THEN PASSED
    ELSE IF ~IsDict(properties) THEN RAISED
    ELSE LET ingress == Get(properties, "SecurityGroupIngress", EmptyList) IN
         IF ~Iterable(ingress) THEN RAISED
         ELSE LET rules == Iter(ingress) IN
              IF \E i \in 1..Len(rules) :
                    /\ IsDict(rules[i])
                    /\ PortInRange(_parse_ports(rules[i]), 22)
              THEN FAILED
              ELSE PASSED

\* CKV_CUSTOM_SG_2
SecurityGroupRestrictedEgress(c) ==
    LET properties == Get(c, "Properties", EmptyDict) IN
    IF ~Truthy(properties) THEN PASSED
    ELSE IF ~IsDict(properties) THEN RAISED
    ELSE LET egress == Get(properties, "SecurityGroupEgress", EmptyList) IN
         IF ~Iterable(egress) THEN RAISED
         ELSE LET rules == Iter(egress) IN
              IF \E i \in 1..Len(rules) :
                    /\ IsDict(rules[i])
                    /\ LET cidr      == Get(rules[i], "CidrIp", VStr(""))
                           cidr_ipv6 == Get(rules[i], "CidrIpv6", VStr(""))
                           protocol  == PyStr(Get(rules[i], "IpProtocol", VStr("")))
                       IN  /\ \/ PyIn(cidr, <<VStr("0.0.0.0/0")>>)
                              \/ PyIn(cidr_ipv6, <<VStr("::/0")>>)
                           /\ protocol \in {"-1", "-1.0"}
              THEN FAILED
              ELSE PASSED

\* _check_rule failing only spans above MAX_PORT_RANGE
CheckRuleAboveRange(r) ==
    IF ~IsDict(r) THEN PASSED
    ELSE LET ports == _parse_ports(r) IN
         IF /\ ports[1].some
            /\ ports[2].some
            /\ (ports[2].v - ports[1].v) > MAX_PORT_RANGE
         THEN FAILED
         ELSE PASSED

\* SecurityGroupNoFullPortRange._check_rule
_check_rule(r) ==
    IF ~IsDict(r) THEN PASSED
    ELSE LET ports == _parse_ports(r) IN
         IF /\ ports[1].some
            /\ ports[2].some
            /\ (ports[2].v - ports[1].v) >= MAX_PORT_RANGE
         THEN FAILED
         ELSE PASSED

\* CKV_CUSTOM_SG_3
SecurityGroupNoFullPortRange(c) ==
    LET resource_type == Get(c, "Type", VStr(""))
        properties    == Get(c, "Properties", EmptyDict)
    IN
    IF ~Truthy(properties) THEN PASSED
    ELSE IF PyEq(resource_type, VStr("AWS::EC2::SecurityGroupIngress"))
         THEN _check_rule(properties)
    ELSE IF ~IsDict(properties) THEN RAISED
    ELSE LET ingress == Get(properties, "SecurityGroupIngress", EmptyList) IN
         IF ~Iterable(ingress) THEN RAISED
         ELSE LET rules == Iter(ingress) IN
              IF \E i \in 1..Len(rules) : _check_rule(rules[i]) = FAILED
              THEN FAILED
              ELSE PASSED

\* the metrics rule deciding on the last ingress rule of the group alone
MetricsPortsInLastRule(c) ==
    LET properties == Get(c, "Properties", EmptyDict) IN
    IF ~Truthy(properties) THEN PASSED
    ELSE IF ~IsDict(properties) THEN RAISED
    ELSE LET ingress == Get(properties, "SecurityGroupIngress", EmptyList) IN
         IF ~Iterable(ingress) THEN RAISED
         ELSE LET rules == Iter(ingress) IN
              IF /\ rules # <<>>
                 /\ IsDict(rules[Len(rules)])
                 /\ _has_external_cidr(rules[Len(rules)])
                 /\ \E port \in {9090, 9100} :
                       PortInRange(_parse_ports(rules[Len(rules)]), port)
              THEN FAILED
              ELSE PASSED

\* CKV_CUSTOM_SG_4
SecurityGroupNoExternalMetricsPorts(c) ==
    LET properties == Get(c, "Properties", EmptyDict) IN
    IF ~Truthy(properties) THEN PASSED
    ELSE IF ~IsDict(properties) THEN RAISED
    ELSE LET ingress == Get(properties, "SecurityGroupIngress", EmptyList) IN
         IF ~Iterable(ingress) THEN RAISED
         ELSE LET rules == Iter(ingress) IN
              IF \E i \in 1..Len(rules) :
                    /\ IsDict(rules[i])
                    /\ _has_external_cidr(rules[i])
                    /\ \E port \in {9090, 9100} :
                          PortInRange(_parse_ports(rules[i]), port)
              THEN FAILED
              ELSE PASSED

\* CKV_CUSTOM_SG_5
SecurityGroupNoDirectGrafana(c) ==
    LET properties == Get(c, "Properties", EmptyDict) IN
    IF ~Truthy(properties) THEN PASSED
    ELSE IF ~IsDict(properties) THEN RAISED
    ELSE LET ingress == Get(properties, "SecurityGroupIngress", EmptyList) IN
         IF ~Iterable(ingress) THEN RAISED
         ELSE LET rules == Iter(ingress) IN
              IF \E i \in 1..Len(rules) :
                    /\ IsDict(rules[i])
                    /\ _has_external_cidr(rules[i])
                    /\ PortInRange(_parse_ports(rules[i]), 3000)
              THEN FAILED
              ELSE PASSED

(***************************************************************************)
(* logging_rules.py: CloudWatch log groups.                                *)
(***************************************************************************)
MINIMUM_RETENTION_DAYS == 90

\* `x and x not in [None, "", {}]`
KeyReferenceSet(x) == Truthy(x) /\ ~PyIn(x, <<VNull, VStr(""), EmptyDict>>)

\* CKV_CUSTOM_VPC_1
LogGroupKmsEncryption(c) ==
    LET properties == Get(c, "Properties", EmptyDict) IN
    IF IsNone(properties) THEN FAILED
    ELSE IF ~IsDict(properties) THEN RAISED
    ELSE IF KeyReferenceSet(Get0(properties, "KmsKeyId")) THEN PASSED
    ELSE FAILED

\* LogGroupRetentionProd without the except branch's UNKNOWN: a retention
\* that is not a number fails the rule
RetentionFailsWhenNotANumber(c) ==
    LET properties == Get(c, "Properties", EmptyDict) IN
    IF IsNone(properties) THEN FAILED
    ELSE IF ~IsDict(properties) THEN RAISED
    ELSE LET retention == Get0(properties, "RetentionInDays") IN
         IF IsNone(retention) THEN PASSED
         ELSE IF ~PyInt(retention).ok THEN FAILED
         ELSE IF PyInt(retention).v >= MINIMUM_RETENTION_DAYS THEN PASSED
         ELSE FAILED

\* LogGroupRetentionProd with a strict comparison: exactly the minimum fails
RetentionAboveMinimum(c) ==
    LET properties == Get(c, "Properties", EmptyDict) IN
    IF IsNone(properties) THEN FAILED
    ELSE IF ~IsDict(properties) THEN RAISED
    ELSE LET retention == Get0(properties, "RetentionInDays") IN
         IF IsNone(retention) THEN PASSED
         ELSE IF ~PyInt(retention).ok THEN UNKNOWN
         ELSE IF PyInt(retention).v > MINIMUM_RETENTION_DAYS THEN PASSED
         ELSE FAILED

\* LogGroupDeletionPolicyRetain without the test of UpdateReplacePolicy
DeletionPolicyRetainOnly(c) ==
    IF PyEq(Get(c, "DeletionPolicy", VStr("Delete")), VStr("Retain")) THEN PASSED
    ELSE FAILED

\* CKV_CUSTOM_VPC_2
LogGroupRetentionProd(c) ==
    LET properties == Get(c, "Properties", EmptyDict) IN
    IF IsNone(properties) THEN FAILED
    ELSE IF ~IsDict(properties) THEN RAISED
    ELSE LET retention == Get0(properties, "RetentionInDays") IN
         IF IsNone(retention) THEN PASSED
         ELSE IF ~PyInt(retention).ok THEN UNKNOWN
         ELSE IF PyInt(retention).v >= MINIMUM_RETENTION_DAYS THEN PASSED
         ELSE FAILED

\* CKV_CUSTOM_VPC_3
LogGroupDeletionPolicyRetain(c) ==
    LET deletion_policy       == Get(c, "DeletionPolicy", VStr("Delete"))
        update_replace_policy == Get(c, "UpdateReplacePolicy", VStr("Delete"))
    IN  IF /\ PyEq(deletion_policy, VStr("Retain"))
           /\ PyEq(update_replace_policy, VStr("Retain"))
        THEN PASSED
        ELSE FAILED

(***************************************************************************)
(* ebs_rules.py: EBS volumes.                                              *)
(***************************************************************************)
MINIMUM_PROD_SIZE_GB == 50

\* EbsCustomerManagedKms with the default of the network rules: a volume
\* without properties passes
EbsPassesWithoutProperties(c) ==
    LET properties == Get(c, "Properties", EmptyDict) IN
    IF ~Truthy(properties) THEN PASSED
    ELSE IF ~IsDict(properties) THEN RAISED
    ELSE IF ~Truthy(Get(properties, "Encrypted", VBool(FALSE))) THEN FAILED
    ELSE IF KeyReferenceSet(Get0(properties, "KmsKeyId")) THEN PASSED
    ELSE FAILED

\* EbsCustomerManagedKms without the test of Encrypted: a key reference
\* alone passes
EbsKeyWithoutEncryption(c) ==
    LET properties == Get(c, "Properties", EmptyDict) IN
    IF ~Truthy(properties) THEN FAILED
    ELSE IF ~IsDict(properties) THEN RAISED
    ELSE IF KeyReferenceSet(Get0(properties, "KmsKeyId")) THEN PASSED
    ELSE FAILED

\* CKV_CUSTOM_EBS_1
EbsCustomerManagedKms(c) ==
    LET properties == Get(c, "Properties", EmptyDict) IN
    IF ~Truthy(properties) THEN FAILED
    ELSE IF ~IsDict(properties) THEN RAISED
    ELSE IF ~Truthy(Get(properties, "Encrypted", VBool(FALSE))) THEN FAILED
    ELSE IF KeyReferenceSet(Get0(properties, "KmsKeyId")) THEN PASSED
    ELSE FAILED

\* the body of the tag loop of EbsMonitoringVolumeSize: a monitoring tag
IsMonitoringTag(tag) ==
    /\ IsDict(tag)
    /\ LET key   == Lower(PyStr(Get(tag, "Key", VStr(""))))
           value == Lower(PyStr(Get(tag, "Value", VStr(""))))
       IN  /\ key \in {"application", "purpose", "project"}
           /\ \E term \in {"prometheus", "grafana", "monitoring"} :
                 Contains(value, term)

\* EbsMonitoringVolumeSize with the coercion of Size ahead of the tag loop:
\* a volume that is not tagged for monitoring is UNKNOWN when its Size does
\* not coerce
EbsSizeBeforeTags(c) ==
    LET properties == Get(c, "Properties", EmptyDict) IN
    IF ~Truthy(properties) THEN PASSED
    ELSE IF ~IsDict(properties) THEN RAISED
    ELSE LET tags == Get(properties, "Tags", EmptyList)
             size == PyInt(Get0(properties, "Size"))
         IN  IF ~Iterable(tags) THEN RAISED
             ELSE IF ~size.ok THEN UNKNOWN
             ELSE IF ~(\E i \in 1..Len(Iter(tags)) : IsMonitoringTag(Iter(tags)[i]))
                  THEN PASSED
             ELSE IF size.v >= MINIMUM_PROD_SIZE_GB THEN PASSED
             ELSE FAILED

\* CKV_CUSTOM_EBS_2
EbsMonitoringVolumeSize(c) ==
    LET properties == Get(c, "Properties", EmptyDict) IN
    IF ~Truthy(properties) THEN PASSED
    ELSE IF ~IsDict(properties) THEN RAISED
    ELSE LET tags == Get(properties, "Tags", EmptyList) IN
         IF ~Iterable(tags) THEN RAISED
         ELSE IF ~(\E i \in 1..Len(Iter(tags)) : IsMonitoringTag(Iter(tags)[i]))
              THEN PASSED
         ELSE LET size == PyInt(Get0(properties, "Size")) IN
              IF ~size.ok THEN UNKNOWN
              ELSE IF size.v >= MINIMUM_PROD_SIZE_GB THEN PASSED
              ELSE FAILED

\* CKV_CUSTOM_EBS_3
EbsBackupStrategy(c) == FAILED

(***************************************************************************)
(* vpc_rules.py, lambda_rules.py, asg_rules.py.                            *)
(***************************************************************************)
\* CKV_CUSTOM_VPC_5
SubnetNoAutoPublicIp(c) ==
    LET properties == Get(c, "Properties", EmptyDict) IN
    IF IsNone(properties) THEN PASSED
    ELSE IF ~IsDict(properties) THEN RAISED
    ELSE LET auto_assign == Get(properties, "MapPublicIpOnLaunch", VBool(FALSE)) IN
         IF \/ auto_assign = VBool(TRUE)
            \/ Lower(PyStr(auto_assign)) = "true"
         THEN FAILED
         ELSE PASSED

\* CKV_CUSTOM_VPC_6
VpcEndpointPolicy(c) ==
    LET properties == Get(c, "Properties", EmptyDict) IN
    IF IsNone(properties) THEN FAILED
    ELSE IF ~IsDict(properties) THEN RAISED
    ELSE LET policy == Get0(properties, "PolicyDocument") IN
         IF Truthy(policy) /\ IsDict(policy) /\ Truthy(Get0(policy, "Statement"))
         THEN PASSED
         ELSE FAILED

\* CKV_CUSTOM_LAMBDA_1
LambdaReservedConcurrency(c) ==
    LET properties == Get(c, "Properties", EmptyDict) IN
    IF IsNone(properties) THEN FAILED
    ELSE IF ~IsDict(properties) THEN RAISED
    ELSE IF ~IsNone(Get0(properties, "ReservedConcurrentExecutions")) THEN PASSED
    ELSE FAILED

\* CKV_CUSTOM_LAMBDA_2
LambdaDlqConfigured(c) ==
    LET properties == Get(c, "Properties", EmptyDict) IN
    IF IsNone(properties) THEN FAILED
    ELSE IF ~IsDict(properties) THEN RAISED
    ELSE LET dlq_config == Get(properties, "DeadLetterConfig", EmptyDict) IN
         IF ~Truthy(dlq_config) THEN FAILED
         ELSE IF ~IsDict(dlq_config) THEN RAISED
         ELSE IF KeyReferenceSet(Get0(dlq_config, "TargetArn")) THEN PASSED
         ELSE FAILED

\* CKV_CUSTOM_ASG_1
AsgElbHealthCheck(c) ==
    LET properties == Get(c, "Properties", EmptyDict) IN
    IF ~Truthy(properties) THEN PASSED
    ELSE IF ~IsDict(properties) THEN RAISED
    ELSE LET target_groups  == Get(properties, "TargetGroupARNs", EmptyList)
             load_balancers == Get(properties, "LoadBalancerNames", EmptyList)
         IN  IF ~(Truthy(target_groups) \/ Truthy(load_balancers)) THEN PASSED
             ELSE IF PyEq(Get(properties, "HealthCheckType", VStr("EC2")), VStr("ELB"))
                  THEN PASSED
             ELSE FAILED

MINIMUM_MIN_SIZE == 2

\* CKV_CUSTOM_ASG_2
AsgMinSizeHA(c) ==
    LET properties == Get(c, "Properties", EmptyDict) IN
    IF ~Truthy(properties) THEN FAILED
    ELSE IF ~IsDict(properties) THEN RAISED
    ELSE LET min_size == Get0(properties, "MinSize") IN
         IF IsNone(min_size) THEN FAILED
         ELSE IF ~PyInt(min_size).ok THEN UNKNOWN
         ELSE IF PyInt(min_size).v >= MINIMUM_MIN_SIZE THEN PASSED
         ELSE FAILED

(***************************************************************************)
(* Loops whose body either returns from the function ("hit"), raises, or   *)
(* goes on to the next item ("next").  The outcome of the loop is the      *)
(* outcome of the first item that does not go on.                          *)
(***************************************************************************)
HIT == "hit"

NEXT == "next"

LoopOutcome(outs) ==
    IF \E i \in 1..Len(outs) : outs[i] # NEXT
    THEN outs[CHOOSE i \in 1..Len(outs) :
                 /\ outs[i] # NEXT
                 /\ \A j \in 1..(i - 1) : outs[j] = NEXT]
    ELSE NEXT

(***************************************************************************)
(* iam_rules.py: IAM roles and policies.                                   *)
(***************************************************************************)
\* IamRoleHasPermissionsBoundary._is_service_linked_role: HIT is True,
\* NEXT is False
_is_service_linked_role(assume_doc) ==
    IF ~IsDict(assume_doc) THEN RAISED
    ELSE LET statements == Get(assume_doc, "Statement", EmptyList) IN
         IF ~Iterable(statements) THEN RAISED
         ELSE LET stmts == Iter(statements) IN
              IF \E i \in 1..Len(stmts) :
                    /\ IsDict(stmts[i])
                    /\ LET principal == Get(stmts[i], "Principal", EmptyDict) IN
                       /\ IsDict(principal)
                       /\ LET service == Get(principal, "Service", VStr("")) IN
                          /\ IsStr(service)
                          /\ Contains(service.s, "amazonaws.com")
                          /\ \/ StartsWith(service.s, "elasticmapreduce")
                             \/ Contains(service.s, "autoscaling")
              THEN HIT
              ELSE NEXT

\* CKV_CUSTOM_IAM_1
IamRoleHasPermissionsBoundary(c) ==
    LET properties == Get(c, "Properties", EmptyDict) IN
    IF ~Truthy(properties) THEN FAILED
    ELSE IF ~IsDict(properties) THEN RAISED
    ELSE IF Truthy(Get0(properties, "PermissionsBoundary")) THEN PASSED
    ELSE LET linked == _is_service_linked_role(
                          Get(properties, "AssumeRolePolicyDocument", EmptyDict))
         IN  IF linked = RAISED THEN RAISED
             ELSE IF linked = HIT THEN PASSED
             ELSE FAILED

\* ACCOUNT_ID_PATTERN without the closing colon: twelve digits after a colon
AccountIdAfterColon(s) ==
    \E i \in 1..(Len(s) - 12) :
        /\ Ch(s, i) = ":"
        /\ \A k \in 1..12 : IsDigit(Ch(s, i + k))

\* ACCOUNT_ID_PATTERN.search(s): re.compile(r':(\d{12}):')
ACCOUNT_ID_PATTERN(s) ==
    \E i \in 1..(Len(s) - 13) :
        /\ Ch(s, i) = ":"
        /\ \A k \in 1..12 : IsDigit(Ch(s, i + k))
        /\ Ch(s, i + 13) = ":"

\* the body of the statement loop of _has_hardcoded_account_id
HardcodedInStatement(stmt) ==
    IF ~IsDict(stmt) THEN NEXT
    ELSE LET res       == Get(stmt, "Resource", EmptyList)
             resources == IF IsStr(res) THEN VList(<<res>>) ELSE res
         IN  IF ~Iterable(resources) THEN RAISED
             ELSE LET rs == Iter(resources) IN
                  IF \E i \in 1..Len(rs) :
                        /\ IsStr(rs[i])
                        /\ rs[i].s # "*"
                        /\ ACCOUNT_ID_PATTERN(rs[i].s)
                  THEN HIT
                  ELSE NEXT

\* IamPolicyNoHardcodedAccountIds._has_hardcoded_account_id: HIT is True,
\* NEXT is False
_has_hardcoded_account_id(policy_doc) ==
    IF ~IsDict(policy_doc) THEN RAISED
    ELSE LET statements == Get(policy_doc, "Statement", EmptyList) IN
         IF ~Iterable(statements) THEN RAISED
         ELSE LET stmts == Iter(statements) IN
              LoopOutcome([i \in 1..Len(stmts) |-> HardcodedInStatement(stmts[i])])

\* the body of the loop over the inline policies
HardcodedInPolicy(policy) ==
    IF ~IsDict(policy) THEN NEXT
    ELSE _has_hardcoded_account_id(Get(policy, "PolicyDocument", EmptyDict))

\* CKV_CUSTOM_IAM_2
IamPolicyNoHardcodedAccountIds(c) ==
    LET properties == Get(c, "Properties", EmptyDict) IN
    IF ~Truthy(properties) THEN PASSED
    ELSE IF ~IsDict(properties) THEN RAISED
    ELSE LET policies == Get(properties, "Policies", EmptyList) IN
         IF ~Iterable(policies) THEN RAISED
         ELSE LET ps     == Iter(policies)
                  inline == LoopOutcome([i \in 1..Len(ps) |-> HardcodedInPolicy(ps[i])])
                  policy_doc == Get(properties, "PolicyDocument", EmptyDict)
              IN  IF inline = RAISED THEN RAISED
                  ELSE IF inline = HIT THEN FAILED
                  ELSE IF ~Truthy(policy_doc) THEN PASSED
                  ELSE LET own == _has_hardcoded_account_id(policy_doc) IN
                       IF own = RAISED THEN RAISED
                       ELSE IF own = HIT THEN FAILED
                       ELSE PASSED

\* CKV_CUSTOM_IAM_3
IamRoleNoStaticName(c) ==
    LET properties == Get(c, "Properties", EmptyDict) IN
    IF ~Truthy(properties) THEN PASSED
    ELSE IF ~IsDict(properties) THEN RAISED
    ELSE LET role_name == Get0(properties, "RoleName") IN
         IF ~Truthy(role_name) THEN PASSED
         ELSE IF IsDict(role_name) THEN PASSED
         ELSE FAILED

MAX_MANAGED_POLICIES == 3

\* the cap the module docstring states for CKV_CUSTOM_IAM_4
DOCUMENTED_MANAGED_POLICIES == 2

\* the cap the name of CKV_CUSTOM_IAM_4 states: the name is formatted from
\* the constant
NAMED_MANAGED_POLICIES == MAX_MANAGED_POLICIES

\* CKV_CUSTOM_IAM_4
IamRoleLimitManagedPolicies(c) ==
    LET properties == Get(c, "Properties", EmptyDict) IN
    IF ~Truthy(properties) THEN PASSED
    ELSE IF ~IsDict(properties) THEN RAISED
    ELSE LET given == Get(properties, "ManagedPolicyArns", EmptyList)
             managed_policies == IF IsList(given) THEN given.l ELSE <<given>>
             aws_managed_count ==
                 Cardinality({i \in 1..Len(managed_policies) :
                     /\ IsStr(managed_policies[i])
                     /\ StartsWith(managed_policies[i].s, "arn:aws:iam::aws:policy/")})
         IN  IF aws_managed_count <= MAX_MANAGED_POLICIES THEN PASSED
             ELSE FAILED

\* CKV_CUSTOM_IAM_5
IamRoleHasPolicy(c) ==
    LET properties == Get(c, "Properties", EmptyDict) IN
    IF ~Truthy(properties) THEN FAILED
    ELSE IF ~IsDict(properties) THEN RAISED
    ELSE LET managed_policies == Get(properties, "ManagedPolicyArns", EmptyList)
             policies         == Get(properties, "Policies", EmptyList)
         IN  IF Truthy(managed_policies) /\ ~Sized(managed_policies) THEN RAISED
             ELSE IF Truthy(managed_policies) /\ PyLen(managed_policies) > 0 THEN PASSED
             ELSE IF Truthy(policies) /\ ~Sized(policies) THEN RAISED
             ELSE IF Truthy(policies) /\ PyLen(policies) > 0 THEN PASSED
             ELSE FAILED

(***************************************************************************)
(* json.loads, for a key policy given as a JSON text.  Objects, arrays,    *)
(* strings without escapes, integers, true, false and null are decoded;    *)
(* a text json.loads rejects gives ok = FALSE (json.JSONDecodeError).      *)
(* Escapes in strings and numbers with a fraction or an exponent are not   *)
(* among the values of the model.                                          *)
(***************************************************************************)
JsonFail == [ok |-> FALSE, v |-> VNull, next |-> 0]

JsonOk(v, next) == [ok |-> TRUE, v |-> v, next |-> next]

RECURSIVE SkipJsonWs(_, _)
SkipJsonWs(s, i) ==
    IF i <= Len(s) /\ Ch(s, i) \in {" ", "\t", "\n", "\r"}
    THEN SkipJsonWs(s, i + 1)
    ELSE i

\* the index of the quote closing the string opened before index i (0: none)
RECURSIVE JsonStringEnd(_, _)
JsonStringEnd(s, i) ==
    IF i > Len(s) \/ Ch(s, i) \in {"\n", "\t", "\r", "\f"} THEN 0
    ELSE IF Ch(s, i) = "\"" THEN i
    ELSE JsonStringEnd(s, i + 1)

\* a string whose opening quote is at index i
JsonString(s, i) ==
    LET e == JsonStringEnd(s, i + 1) IN
    IF Ch(s, i) # "\"" \/ e = 0 THEN JsonFail
    ELSE JsonOk(VStr(Mid(s, i + 1, e - 1)), e + 1)

\* -?(0|[1-9]\d*) at index i
JsonNumber(s, i) ==
    LET neg == Ch(s, i) = "-"
        d0  == IF neg THEN i + 1 ELSE i
        d1  == IF Ch(s, d0) = "0" THEN d0 + 1 ELSE SkipDigits(s, d0)
        n   == DigitsValue(Mid(s, d0, d1 - 1), 0)
    IN  IF d1 = d0 THEN JsonFail
        ELSE JsonOk(VInt(IF neg THEN 0 - n ELSE n), d1)

\* d[k] = v on the items of a dict
DictSet(d, k, v) ==
    IF \E i \in 1..Len(d) : d[i][1] = k
    THEN [i \in 1..Len(d) |-> IF d[i][1] = k THEN <<k, v>> ELSE d[i]]
    ELSE Append(d, <<k, v>>)

RECURSIVE JsonValue(_, _)
RECURSIVE JsonObject(_, _, _)
RECURSIVE JsonArray(_, _, _)
\* the value starting at or after index i0
JsonValue(s, i0) ==
    LET i == SkipJsonWs(s, i0)
        c == Ch(s, i)
    IN  IF i > Len(s) THEN JsonFail
        ELSE IF c = "{"
             THEN LET j == SkipJsonWs(s, i + 1) IN
                  IF Ch(s, j) = "}" THEN JsonOk(EmptyDict, j + 1)
                  ELSE JsonObject(s, j, <<>>)
        ELSE IF c = "["
             THEN LET j == SkipJsonWs(s, i + 1) IN
                  IF Ch(s, j) = "]" THEN JsonOk(EmptyList, j + 1)
                  ELSE JsonArray(s, j, <<>>)
        ELSE IF c = "\"" THEN JsonString(s, i)
        ELSE IF StartsAt(s, i, "true") THEN JsonOk(VBool(TRUE), i + 4)
        ELSE IF StartsAt(s, i, "false") THEN JsonOk(VBool(FALSE), i + 5)
        ELSE IF StartsAt(s, i, "null") THEN JsonOk(VNull, i + 4)
        ELSE JsonNumber(s, i)

\* the members of an object from the key at index i on; acc: those read
JsonObject(s, i, acc) ==
    LET k == JsonString(s, i)
        c == SkipJsonWs(s, k.next)
        v == JsonValue(s, c + 1)
        e == SkipJsonWs(s, v.next)
    IN  IF ~k.ok \/ Ch(s, c) # ":" THEN JsonFail
        ELSE IF ~v.ok THEN JsonFail
        ELSE IF Ch(s, e) = "}" THEN JsonOk(VDict(DictSet(acc, k.v.s, v.v)), e + 1)
        ELSE IF Ch(s, e) = ","
             THEN JsonObject(s, SkipJsonWs(s, e + 1), DictSet(acc, k.v.s, v.v))
        ELSE JsonFail

\* the elements of an array from index i on; acc: those read
JsonArray(s, i, acc) ==
    LET v == JsonValue(s, i)
        e == SkipJsonWs(s, v.next)
    IN  IF ~v.ok THEN JsonFail
        ELSE IF Ch(s, e) = "]" THEN JsonOk(VList(Append(acc, v.v)), e + 1)
        ELSE IF Ch(s, e) = "," THEN JsonArray(s, e + 1, Append(acc, v.v))
        ELSE JsonFail

\* json.loads(s): the whole text is one value
json_loads(s) ==
    LET r == JsonValue(s, 1) IN
    IF r.ok /\ SkipJsonWs(s, r.next) = Len(s) + 1 THEN r ELSE JsonFail

(***************************************************************************)
(* kms_rules.py, sns_rules.py, sqs_ssl_enabled.py.                         *)
(***************************************************************************)
\* the body of the statement loop of KmsNoWildcardActions
WildcardInStatement(statement) ==
    IF ~IsDict(statement) THEN NEXT
    ELSE IF ~PyEq(Get(statement, "Effect", VStr("")), VStr("Allow")) THEN NEXT
    ELSE LET act     == Get(statement, "Action", EmptyList)
             actions == IF IsStr(act) THEN VList(<<act>>) ELSE act
         IN  IF ~Iterable(actions) THEN RAISED
             ELSE IF \E i \in 1..Len(Iter(actions)) :
                        PyEq(Iter(actions)[i], VStr("kms:*"))
                  THEN HIT
             ELSE NEXT

\* KmsNoWildcardActions.scan_resource_conf from the decoded key policy on
KmsPolicyVerdict(key_policy) ==
    IF ~IsDict(key_policy) THEN RAISED
    ELSE LET given      == Get(key_policy, "Statement", EmptyList)
             statements == IF IsList(given) THEN given.l ELSE <<given>>
             found      == LoopOutcome([i \in 1..Len(statements) |->
                                           WildcardInStatement(statements[i])])
         IN  IF found = RAISED THEN RAISED
             ELSE IF found = HIT THEN FAILED
             ELSE PASSED

\* CKV_CUSTOM_KMS_1
KmsNoWildcardActions(c) ==
    LET properties == Get(c, "Properties", EmptyDict) IN
    IF ~Truthy(properties) THEN PASSED
    ELSE IF ~IsDict(properties) THEN RAISED
    ELSE LET key_policy == Get0(properties, "KeyPolicy") IN
         IF ~Truthy(key_policy) THEN PASSED
         ELSE IF IsStr(key_policy)
              THEN IF ~json_loads(key_policy.s).ok THEN UNKNOWN
                   ELSE KmsPolicyVerdict(json_loads(key_policy.s).v)
         ELSE KmsPolicyVerdict(key_policy)

\* CKV_CUSTOM_KMS_2
KmsDeletionPolicyRetain(c) ==
    LET deletion_policy       == Get0(c, "DeletionPolicy")
        update_replace_policy == Get0(c, "UpdateReplacePolicy")
    IN  IF /\ PyEq(deletion_policy, VStr("Retain"))
           /\ PyEq(update_replace_policy, VStr("Retain"))
        THEN PASSED
        ELSE IF PyEq(deletion_policy, VStr("Retain")) THEN PASSED
        ELSE FAILED

\* CKV_CUSTOM_SNS_1
SnsTopicEncryption(c) ==
    LET properties == Get(c, "Properties", EmptyDict) IN
    IF ~Truthy(properties) THEN FAILED
    ELSE IF ~IsDict(properties) THEN RAISED
    ELSE IF KeyReferenceSet(Get0(properties, "KmsMasterKeyId")) THEN PASSED
    ELSE FAILED

\* the body of the statement loop of SnsSslEnforcement
SnsDenyInStatement(statement) ==
    IF ~IsDict(statement) THEN NEXT
    ELSE IF ~PyEq(Get(statement, "Effect", VStr("")), VStr("Deny")) THEN NEXT
    ELSE LET conditions == Get(statement, "Condition", EmptyDict) IN
         IF ~IsDict(conditions) THEN RAISED
         ELSE LET bool_conditions == Get(conditions, "Bool", EmptyDict) IN
              IF ~IsDict(bool_conditions) THEN RAISED
              ELSE IF PyIn(Get0(bool_conditions, "aws:SecureTransport"),
                           <<VStr("false"), VBool(FALSE)>>)
                   THEN HIT
              ELSE NEXT

\* CKV_CUSTOM_SNS_2
SnsSslEnforcement(c) ==
    LET properties == Get(c, "Properties", EmptyDict) IN
    IF ~Truthy(properties) THEN FAILED
    ELSE IF ~IsDict(properties) THEN RAISED
    ELSE LET policy_document == Get(properties, "PolicyDocument", EmptyDict) IN
         IF ~IsDict(policy_document) THEN RAISED
         ELSE LET given      == Get(policy_document, "Statement", EmptyList)
                  statements == IF IsList(given) THEN given.l ELSE <<given>>
                  found      == LoopOutcome([i \in 1..Len(statements) |->
                                                SnsDenyInStatement(statements[i])])
              IN  IF found = RAISED THEN RAISED
                  ELSE IF found = HIT THEN PASSED
                  ELSE FAILED

\* the body of the statement loop of SqsQueuePolicyEnforcesSSL
SqsDenyInStatement(statement) ==
    IF ~IsDict(statement) THEN NEXT
    ELSE IF ~PyEq(Get0(statement, "Effect"), VStr("Deny")) THEN NEXT
    ELSE LET conditions == Get(statement, "Condition", EmptyDict) IN
         IF ~IsDict(conditions) THEN RAISED
         ELSE LET bool_conditions == Get(conditions, "Bool", EmptyDict) IN
              IF ~IsDict(bool_conditions) THEN RAISED
              ELSE IF PyEq(Get0(bool_conditions, "aws:SecureTransport"), VStr("false"))
                   THEN HIT
              ELSE NEXT

\* CKV_CUSTOM_SQS_1
SqsQueuePolicyEnforcesSSL(c) ==
    LET properties == Get(c, "Properties", EmptyDict) IN
    IF IsNone(properties) THEN FAILED
    ELSE IF ~IsDict(properties) THEN RAISED
    ELSE LET policy_doc == Get(properties, "PolicyDocument", EmptyDict) IN
         IF ~Truthy(policy_doc) THEN FAILED
         ELSE IF ~IsDict(policy_doc) THEN RAISED
         ELSE LET statements == Get(policy_doc, "Statement", EmptyList) IN
              IF ~Iterable(statements) THEN RAISED
              ELSE LET stmts == Iter(statements)
                       found == LoopOutcome([i \in 1..Len(stmts) |->
                                                SqsDenyInStatement(stmts[i])])
                   IN  IF found = RAISED THEN RAISED
                       ELSE IF found = HIT THEN PASSED
                       ELSE FAILED

(***************************************************************************)
(* compute_rules.py: the intrinsic resolver and the UserData rules.        *)
(***************************************************************************)
RECURSIVE _extract_userdata_strings(_)
RECURSIVE ExtractEach(_, _)
RECURSIVE ExtractItems(_, _)
RECURSIVE ExtractStringTwice(_)
RECURSIVE ExtractItemsAnyJoin(_, _)
RECURSIVE ExtractEachReversed(_, _)
RECURSIVE ExtractItemsWithSeparator(_, _)
\* the resolver with a literal string extracted twice
ExtractStringTwice(u) ==
    CASE u.t = "str"  -> <<u.s, u.s>>
      [] u.t = "dict" -> ExtractItems(u.d, 1)
      [] u.t = "list" -> ExtractEach(u.l, 1)
      [] OTHER        -> <<>>

\* _extract_userdata_strings(userdata): the string literals of the subtree,
\* in order
_extract_userdata_strings(u) ==
    CASE u.t = "str"  -> <<u.s>>
      [] u.t = "dict" -> ExtractItems(u.d, 1)
      [] u.t = "list" -> ExtractEach(u.l, 1)
      [] OTHER        -> <<>>

\* the item loop collecting the items' strings last item first
ExtractEachReversed(items, i) ==
    IF i > Len(items) THEN <<>>
    ELSE ExtractEachReversed(items, i + 1) \o _extract_userdata_strings(items[i])

\* `for item in items: strings.extend(_extract_userdata_strings(item))`
ExtractEach(items, i) ==
    IF i > Len(items) THEN <<>>
    ELSE _extract_userdata_strings(items[i]) \o ExtractEach(items, i + 1)

\* the key loop without the Fn::Join branch: the argument of a join, its
\* separator included, is resolved like any other value
ExtractItemsWithSeparator(d, i) ==
    IF i > Len(d) THEN <<>>
    ELSE _extract_userdata_strings(d[i][2]) \o ExtractItemsWithSeparator(d, i + 1)

\* the key loop with a join branch that does not ask for a two-element
\* list: whatever the argument holds is resolved as the items
ExtractItemsAnyJoin(d, i) ==
    IF i > Len(d) THEN <<>>
    ELSE LET key   == d[i][1]
             value == d[i][2]
             here  ==
                 IF key = "Fn::Join"
                 THEN ExtractEach(IF IsList(value) THEN value.l ELSE <<value>>, 1)
                 ELSE _extract_userdata_strings(value)
         IN  here \o ExtractItemsAnyJoin(d, i + 1)

\* `for key, value in userdata.items()`
ExtractItems(d, i) ==
    IF i > Len(d) THEN <<>>
    ELSE LET key   == d[i][1]
             value == d[i][2]
             here  ==
                 IF key \in {"Fn::Base64", "Fn::Sub"}
                 THEN _extract_userdata_strings(value)
                 ELSE IF key = "Fn::Join"
                      THEN IF IsList(value) /\ Len(value.l) = 2
                           THEN ExtractEach(IF IsList(value.l[2])
                                            THEN value.l[2].l
                                            ELSE <<value.l[2]>>, 1)
                           ELSE <<>>
                 ELSE _extract_userdata_strings(value)
         IN  here \o ExtractItems(d, i + 1)

\* "\n".join(strings)
RECURSIVE JoinLines(_, _)
JoinLines(strings, i) ==
    IF i > Len(strings) THEN ""
    ELSE strings[i] \o (IF i < Len(strings) THEN "\n" ELSE "") \o JoinLines(strings, i + 1)

Raise == [t |-> "raise"]

\* _get_userdata_script on a list that is kept between calls: the strings
\* of the resource evaluated before are still in it
ScriptAfterEarlierStrings(c) ==
    LET properties == Get(c, "Properties", EmptyDict)
        before     == IF verdicts = <<>> THEN EmptyDict
                      ELSE conf.l[verdicts[Len(verdicts)][2]]
        kept       == _extract_userdata_strings(
                          Get0(Get(before, "Properties", EmptyDict), "UserData"))
    IN  IF ~Truthy(properties) THEN VNull
        ELSE IF ~IsDict(properties) THEN Raise
        ELSE LET ud == Get0(properties, "UserData") IN
             IF ~Truthy(ud) THEN VNull
             ELSE VStr(JoinLines(kept \o _extract_userdata_strings(ud), 1))

\* _get_userdata_script(conf): the script as a str, None when there is
\* none, Raise when the call raises
_get_userdata_script(c) ==
    LET properties == Get(c, "Properties", EmptyDict) IN
    IF ~Truthy(properties) THEN VNull
    ELSE IF ~IsDict(properties) THEN Raise
    ELSE LET ud == Get0(properties, "UserData") IN
         IF ~Truthy(ud) THEN VNull
         ELSE VStr(JoinLines(_extract_userdata_strings(ud), 1))

QUOTES == {"'", "\""}

\* CREDENTIAL_PATTERNS: KEY\s*=\s*['"]?\w+['"]? with re.IGNORECASE, one
\* pattern per key
CREDENTIAL_KEYS == <<"PASSWORD", "SECRET", "API_KEY", "TOKEN", "ADMIN_PASSWORD">>

\* the index of the last character of the match of the pattern of `key`
\* that starts at index i of s, 0 when it does not match there
CredentialMatchEnd(s, i, key) ==
    LET eq == SkipSpace(s, i + Len(key))
        v  == SkipSpace(s, eq + 1)
        w  == IF Ch(s, v) \in QUOTES /\ IsWord(Ch(s, v + 1)) THEN v + 1 ELSE v
        e  == SkipWord(s, w)
    IN  IF StartsAtI(s, i, key) /\ Ch(s, eq) = "=" /\ e > w
        THEN (IF Ch(s, e) \in QUOTES THEN e ELSE e - 1)
        ELSE 0

\* pattern.findall(full_script): the matches from left to right, each
\* search resuming after the previous match
RECURSIVE FindAllCredentials(_, _, _)
FindAllCredentials(s, pos, key) ==
    LET starts == {i \in pos..Len(s) : CredentialMatchEnd(s, i, key) > 0} IN
    IF starts = {} THEN <<>>
    ELSE LET b == CHOOSE i \in starts : \A j \in starts : i <= j
             e == CredentialMatchEnd(s, b, key)
         IN  <<Mid(s, b, e)>> \o FindAllCredentials(s, e + 1, key)

\* PASSWORD\s*=\s*<c> found somewhere in m, ignoring case
PasswordAssigns(m, c) ==
    \E i \in 1..Len(m) :
        /\ StartsAtI(m, i, "PASSWORD")
        /\ LET eq == SkipSpace(m, i + 8) IN
           /\ Ch(m, eq) = "="
           /\ Ch(m, SkipSpace(m, eq + 1)) = c

\* any(fp.search(match) for fp in FALSE_POSITIVE_PATTERNS)
FALSE_POSITIVE_PATTERNS(m) ==
    \/ PasswordAssigns(m, "$")
    \/ PasswordAssigns(m, "{")
    \/ ContainsI(m, "secretsmanager")

\* NoHardcodedCredentialsInUserData with the exclusions searched in the
\* whole script instead of in each match
ExclusionsOnWholeScript(c) ==
    LET full_script == _get_userdata_script(c) IN
    IF full_script = Raise THEN RAISED
    ELSE IF ~Truthy(full_script) THEN PASSED
    ELSE IF /\ \E p \in 1..Len(CREDENTIAL_KEYS) :
                  FindAllCredentials(full_script.s, 1, CREDENTIAL_KEYS[p]) # <<>>
            /\ ~FALSE_POSITIVE_PATTERNS(full_script.s)
         THEN FAILED
    ELSE PASSED

\* CKV_CUSTOM_COMPUTE_1
NoHardcodedCredentialsInUserData(c) ==
    LET full_script == _get_userdata_script(c) IN
    IF full_script = Raise THEN RAISED
    ELSE IF ~Truthy(full_script) THEN PASSED
    ELSE IF \E p \in 1..Len(CREDENTIAL_KEYS) :
               LET matches == FindAllCredentials(full_script.s, 1, CREDENTIAL_KEYS[p]) IN
               \E k \in 1..Len(matches) : ~FALSE_POSITIVE_PATTERNS(matches[k])
         THEN FAILED
    ELSE PASSED

\* the lookahead -H\s+["']X-aws-ec2-metadata-token at index i
TokenHeaderAt(s, i) ==
    LET q == SkipSpace(s, i + 2) IN
    /\ StartsAt(s, i, "-H")
    /\ q > i + 2
    /\ Ch(s, q) \in QUOTES
    /\ StartsAt(s, q + 1, "X-aws-ec2-metadata-token")

\* IMDSV1_PATTERN.search(s): curl, whitespace, then characters none of
\* which starts the token header, then the meta-data URL (re.DOTALL)
IMDSV1_PATTERN(s) ==
    \E i \in 1..Len(s) :
        /\ StartsAt(s, i, "curl")
        /\ \E p \in (i + 5)..SkipSpace(s, i + 4) :
              \E j \in p..Len(s) :
                  /\ StartsAt(s, j, "http://169.254.169.254/latest/meta-data")
                  /\ \A q \in p..(j - 1) : ~TokenHeaderAt(s, q)

\* IMDSV2_TOKEN_PATTERN.search(s):
\* curl\s+.*-X\s+PUT.*169\.254\.169\.254/latest/api/token (re.DOTALL)
IMDSV2_TOKEN_PATTERN(s) ==
    \E i \in 1..Len(s) :
        /\ StartsAt(s, i, "curl")
        /\ IsSpace(Ch(s, i + 4))
        /\ \E x \in (i + 5)..Len(s) :
              /\ StartsAt(s, x, "-X")
              /\ LET a == SkipSpace(s, x + 2) IN
                 /\ a > x + 2
                 /\ StartsAt(s, a, "PUT")
                 /\ \E y \in (a + 3)..Len(s) :
                       StartsAt(s, y, "169.254.169.254/latest/api/token")

\* CKV_CUSTOM_COMPUTE_2
UserDataIMDSv2Required(c) ==
    LET full_script == _get_userdata_script(c) IN
    IF full_script = Raise THEN RAISED
    ELSE IF ~Truthy(full_script) THEN PASSED
    ELSE IF ~Contains(full_script.s, "169.254.169.254") THEN PASSED
    ELSE IF IMDSV1_PATTERN(full_script.s) /\ ~IMDSV2_TOKEN_PATTERN(full_script.s)
         THEN FAILED
    ELSE PASSED

\* the end of the match of UNSAFE_PORT_BINDING, ["'](\d+:\d+)["'], at
\* index i (0: no match there)
UnsafeBindingEnd(s, i) ==
    LET d1 == SkipDigits(s, i + 1)
        d2 == SkipDigits(s, d1 + 1)
    IN  IF /\ Ch(s, i) \in QUOTES
           /\ d1 > i + 1
           /\ Ch(s, d1) = ":"
           /\ d2 > d1 + 1
           /\ Ch(s, d2) \in QUOTES
        THEN d2
        ELSE 0

\* the end of the match of SAFE_PORT_BINDING,
\* ["']127\.0\.0\.1:\d+:\d+["'], at index i (0: no match there)
SafeBindingEnd(s, i) ==
    LET d1 == SkipDigits(s, i + 11)
        d2 == SkipDigits(s, d1 + 1)
    IN  IF /\ Ch(s, i) \in QUOTES
           /\ StartsAt(s, i + 1, "127.0.0.1:")
           /\ d1 > i + 11
           /\ Ch(s, d1) = ":"
           /\ d2 > d1 + 1
           /\ Ch(s, d2) \in QUOTES
        THEN d2
        ELSE 0

\* len(UNSAFE_PORT_BINDING.findall(s[pos-1:]))
RECURSIVE UNSAFE_PORT_BINDING(_, _)
UNSAFE_PORT_BINDING(s, pos) ==
    LET starts == {i \in pos..Len(s) : UnsafeBindingEnd(s, i) > 0} IN
    IF starts = {} THEN 0
    ELSE LET b == CHOOSE i \in starts : \A j \in starts : i <= j
         IN  1 + UNSAFE_PORT_BINDING(s, UnsafeBindingEnd(s, b) + 1)

\* len(SAFE_PORT_BINDING.findall(s[pos-1:]))
RECURSIVE SAFE_PORT_BINDING(_, _)
SAFE_PORT_BINDING(s, pos) ==
    LET starts == {i \in pos..Len(s) : SafeBindingEnd(s, i) > 0} IN
    IF starts = {} THEN 0
    ELSE LET b == CHOOSE i \in starts : \A j \in starts : i <= j
         IN  1 + SAFE_PORT_BINDING(s, SafeBindingEnd(s, b) + 1)

\* CKV_CUSTOM_COMPUTE_4
DockerPortsBindLoopback(c) ==
    LET full_script == _get_userdata_script(c) IN
    IF full_script = Raise THEN RAISED
    ELSE IF ~Truthy(full_script) THEN PASSED
    ELSE IF ~Contains(Lower(full_script.s), "docker") THEN PASSED
    ELSE IF ~Contains(full_script.s, "ports:") THEN PASSED
    ELSE LET unsafe_bindings == UNSAFE_PORT_BINDING(full_script.s, 1)
             safe_bindings   == SAFE_PORT_BINDING(full_script.s, 1)
         IN  IF unsafe_bindings > 0 /\ safe_bindings = 0 THEN FAILED
             ELSE IF unsafe_bindings > safe_bindings THEN FAILED
             ELSE PASSED

(***************************************************************************)
(* The rule catalog: each module registers its checks once, at import.     *)
(* Checkov hands a resource to a check when the resource's Type is among   *)
(* the check's supported_resources.                                        *)
(***************************************************************************)
RuleIds ==
    { "CKV_CUSTOM_SG_1", "CKV_CUSTOM_SG_2", "CKV_CUSTOM_SG_3", "CKV_CUSTOM_SG_4",
      "CKV_CUSTOM_SG_5", "CKV_CUSTOM_VPC_1", "CKV_CUSTOM_VPC_2", "CKV_CUSTOM_VPC_3",
      "CKV_CUSTOM_EBS_1", "CKV_CUSTOM_EBS_2", "CKV_CUSTOM_EBS_3",
      "CKV_CUSTOM_COMPUTE_1", "CKV_CUSTOM_COMPUTE_2", "CKV_CUSTOM_COMPUTE_4",
      "CKV_CUSTOM_VPC_5", "CKV_CUSTOM_VPC_6", "CKV_CUSTOM_LAMBDA_1",
      "CKV_CUSTOM_LAMBDA_2", "CKV_CUSTOM_IAM_1", "CKV_CUSTOM_IAM_2",
      "CKV_CUSTOM_IAM_3", "CKV_CUSTOM_IAM_4", "CKV_CUSTOM_IAM_5",
      "CKV_CUSTOM_KMS_1", "CKV_CUSTOM_KMS_2", "CKV_CUSTOM_ASG_1",
      "CKV_CUSTOM_ASG_2", "CKV_CUSTOM_SNS_1", "CKV_CUSTOM_SNS_2",
      "CKV_CUSTOM_SQS_1" }

SgRuleIds ==
    {"CKV_CUSTOM_SG_1", "CKV_CUSTOM_SG_2", "CKV_CUSTOM_SG_3", "CKV_CUSTOM_SG_4",
     "CKV_CUSTOM_SG_5"}

supported_resources(id) ==
    CASE id = "CKV_CUSTOM_SG_3" ->
            {"AWS::EC2::SecurityGroup", "AWS::EC2::SecurityGroupIngress"}
      [] id \in SgRuleIds \ {"CKV_CUSTOM_SG_3"} -> {"AWS::EC2::SecurityGroup"}
      [] id \in {"CKV_CUSTOM_VPC_1", "CKV_CUSTOM_VPC_2", "CKV_CUSTOM_VPC_3"} ->
            {"AWS::Logs::LogGroup"}
      [] id \in {"CKV_CUSTOM_EBS_1", "CKV_CUSTOM_EBS_2", "CKV_CUSTOM_EBS_3"} ->
            {"AWS::EC2::Volume"}
      [] id \in {"CKV_CUSTOM_COMPUTE_1", "CKV_CUSTOM_COMPUTE_2", "CKV_CUSTOM_COMPUTE_4"} ->
            {"AWS::EC2::Instance"}
      [] id = "CKV_CUSTOM_VPC_5" -> {"AWS::EC2::Subnet"}
      [] id = "CKV_CUSTOM_VPC_6" -> {"AWS::EC2::VPCEndpoint"}
      [] id \in {"CKV_CUSTOM_LAMBDA_1", "CKV_CUSTOM_LAMBDA_2"} ->
            {"AWS::Lambda::Function"}
      [] id = "CKV_CUSTOM_IAM_2" -> {"AWS::IAM::Policy", "AWS::IAM::Role"}
      [] id \in {"CKV_CUSTOM_IAM_1", "CKV_CUSTOM_IAM_3", "CKV_CUSTOM_IAM_4",
                 "CKV_CUSTOM_IAM_5"} -> {"AWS::IAM::Role"}
      [] id \in {"CKV_CUSTOM_KMS_1", "CKV_CUSTOM_KMS_2"} -> {"AWS::KMS::Key"}
      [] id \in {"CKV_CUSTOM_ASG_1", "CKV_CUSTOM_ASG_2"} ->
            {"AWS::AutoScaling::AutoScalingGroup"}
      [] id = "CKV_CUSTOM_SNS_1" -> {"AWS::SNS::Topic"}
      [] id = "CKV_CUSTOM_SNS_2" -> {"AWS::SNS::TopicPolicy"}
      [] id = "CKV_CUSTOM_SQS_1" -> {"AWS::SQS::QueuePolicy"}

\* the check registered under `id`, applied to a resource
scan_resource_conf(id, c) ==
    CASE id = "CKV_CUSTOM_SG_1" -> SecurityGroupNoSSH(c)
      [] id = "CKV_CUSTOM_SG_2" -> SecurityGroupRestrictedEgress(c)
      [] id = "CKV_CUSTOM_SG_3" -> SecurityGroupNoFullPortRange(c)
      [] id = "CKV_CUSTOM_SG_4" -> SecurityGroupNoExternalMetricsPorts(c)
      [] id = "CKV_CUSTOM_SG_5" -> SecurityGroupNoDirectGrafana(c)
      [] id = "CKV_CUSTOM_VPC_1" -> LogGroupKmsEncryption(c)
      [] id = "CKV_CUSTOM_VPC_2" -> LogGroupRetentionProd(c)
      [] id = "CKV_CUSTOM_VPC_3" -> LogGroupDeletionPolicyRetain(c)
      [] id = "CKV_CUSTOM_EBS_1" -> EbsCustomerManagedKms(c)
      [] id = "CKV_CUSTOM_EBS_2" -> EbsMonitoringVolumeSize(c)
      [] id = "CKV_CUSTOM_EBS_3" -> EbsBackupStrategy(c)
      [] id = "CKV_CUSTOM_COMPUTE_1" -> NoHardcodedCredentialsInUserData(c)
      [] id = "CKV_CUSTOM_COMPUTE_2" -> UserDataIMDSv2Required(c)
      [] id = "CKV_CUSTOM_COMPUTE_4" -> DockerPortsBindLoopback(c)
      [] id = "CKV_CUSTOM_VPC_5" -> SubnetNoAutoPublicIp(c)
      [] id = "CKV_CUSTOM_VPC_6" -> VpcEndpointPolicy(c)
      [] id = "CKV_CUSTOM_LAMBDA_1" -> LambdaReservedConcurrency(c)
      [] id = "CKV_CUSTOM_LAMBDA_2" -> LambdaDlqConfigured(c)
      [] id = "CKV_CUSTOM_IAM_1" -> IamRoleHasPermissionsBoundary(c)
      [] id = "CKV_CUSTOM_IAM_2" -> IamPolicyNoHardcodedAccountIds(c)
      [] id = "CKV_CUSTOM_IAM_3" -> IamRoleNoStaticName(c)
      [] id = "CKV_CUSTOM_IAM_4" -> IamRoleLimitManagedPolicies(c)
      [] id = "CKV_CUSTOM_IAM_5" -> IamRoleHasPolicy(c)
      [] id = "CKV_CUSTOM_KMS_1" -> KmsNoWildcardActions(c)
      [] id = "CKV_CUSTOM_KMS_2" -> KmsDeletionPolicyRetain(c)
      [] id = "CKV_CUSTOM_ASG_1" -> AsgElbHealthCheck(c)
      [] id = "CKV_CUSTOM_ASG_2" -> AsgMinSizeHA(c)
      [] id = "CKV_CUSTOM_SNS_1" -> SnsTopicEncryption(c)
      [] id = "CKV_CUSTOM_SNS_2" -> SnsSslEnforcement(c)
      [] id = "CKV_CUSTOM_SQS_1" -> SqsQueuePolicyEnforcesSSL(c)

(***************************************************************************)
(* The resources handed to the rules.  Checkov parses a template and calls *)
(* scan_resource_conf once per resource of a supported type; the families  *)
(* below are the bounded sets of resources the specifications start from.  *)
(***************************************************************************)
MaxEvals == 2

MaxRules == 2

MaxStatements == 2

MaxLines == 4

MaxItems == 2

\* the sequences over S of length at most n
SeqsUpTo(S, n) == UNION {[1..k -> S] : k \in 0..n}

Dict1(k, v) == VDict(<<<<k, v>>>>)

\* a resource with a Properties section
WithProperties(type, properties) ==
    VDict(<<<<"Type", VStr(type)>>, <<"Properties", properties>>>>)

\* the lifecycle attributes a resource may carry next to Type
Lifecycles ==
    { <<>>,
      <<<<"DeletionPolicy", VStr("Retain")>>>>,
      <<<<"DeletionPolicy", VStr("Delete")>>>>,
      <<<<"UpdateReplacePolicy", VStr("Retain")>>>>,
      <<<<"DeletionPolicy", VStr("Retain")>>, <<"UpdateReplacePolicy", VStr("Retain")>>>>,
      <<<<"DeletionPolicy", VStr("Retain")>>, <<"UpdateReplacePolicy", VStr("Delete")>>>> }

\* the resources of a type that have no Properties section
WithoutProperties(type) ==
    {VDict(<<<<"Type", VStr(type)>>>> \o lc) : lc \in Lifecycles}

\* the properties a rule reads
Fields(id) ==
    CASE id \in {"CKV_CUSTOM_SG_1", "CKV_CUSTOM_SG_4", "CKV_CUSTOM_SG_5"} ->
            {"SecurityGroupIngress"}
      [] id = "CKV_CUSTOM_SG_2" -> {"SecurityGroupEgress"}
      [] id = "CKV_CUSTOM_SG_3" -> {"SecurityGroupIngress", "FromPort", "ToPort"}
      [] id = "CKV_CUSTOM_VPC_1" -> {"KmsKeyId"}
      [] id = "CKV_CUSTOM_VPC_2" -> {"RetentionInDays"}
      [] id = "CKV_CUSTOM_EBS_1" -> {"Encrypted", "KmsKeyId"}
      [] id = "CKV_CUSTOM_EBS_2" -> {"Tags", "Size"}
      [] id \in {"CKV_CUSTOM_COMPUTE_1", "CKV_CUSTOM_COMPUTE_2", "CKV_CUSTOM_COMPUTE_4"} ->
            {"UserData"}
      [] id = "CKV_CUSTOM_VPC_5" -> {"MapPublicIpOnLaunch"}
      [] id \in {"CKV_CUSTOM_VPC_6", "CKV_CUSTOM_SNS_2", "CKV_CUSTOM_SQS_1"} ->
            {"PolicyDocument"}
      [] id = "CKV_CUSTOM_LAMBDA_1" -> {"ReservedConcurrentExecutions"}
      [] id = "CKV_CUSTOM_LAMBDA_2" -> {"DeadLetterConfig"}
      [] id = "CKV_CUSTOM_IAM_1" -> {"PermissionsBoundary", "AssumeRolePolicyDocument"}
      [] id = "CKV_CUSTOM_IAM_2" -> {"Policies", "PolicyDocument"}
      [] id = "CKV_CUSTOM_IAM_3" -> {"RoleName"}
      [] id = "CKV_CUSTOM_IAM_4" -> {"ManagedPolicyArns"}
      [] id = "CKV_CUSTOM_IAM_5" -> {"ManagedPolicyArns", "Policies"}
      [] id = "CKV_CUSTOM_KMS_1" -> {"KeyPolicy"}
      [] id = "CKV_CUSTOM_ASG_1" ->
            {"TargetGroupARNs", "LoadBalancerNames", "HealthCheckType"}
      [] id = "CKV_CUSTOM_ASG_2" -> {"MinSize"}
      [] id = "CKV_CUSTOM_SNS_1" -> {"KmsMasterKeyId"}
      [] OTHER -> {"Description"}

\* the shapes a property may hold in a parsed template, expected or not
Shapes ==
    { VNull, VBool(TRUE), VBool(FALSE), VInt(0), VInt(22),
      VStr(""), VStr("x"), VStr("22"),
      EmptyList, VList(<<VNull>>), VList(<<VStr("x")>>), VList(<<EmptyDict>>),
      EmptyDict, Dict1("x", VStr("x")) }

\* resources whose Properties, or one property a rule reads, hold any shape
Malformed(id) ==
    {WithProperties(t, Dict1(f, v)) :
        t \in supported_resources(id), f \in Fields(id), v \in Shapes}
    \cup {WithProperties(t, v) : t \in supported_resources(id), v \in Shapes}

\* statements that do not have the shape a rule expects
MalformedStatements ==
    { VNull, VStr("x"),
      VDict(<<<<"Effect", VStr("Deny")>>, <<"Condition", VStr("x")>>>>),
      VDict(<<<<"Effect", VStr("Deny")>>, <<"Condition", VNull>>>>),
      VDict(<<<<"Effect", VStr("Deny")>>, <<"Condition", Dict1("Bool", VStr("x"))>>>>),
      VDict(<<<<"Effect", VStr("Allow")>>, <<"Action", VNull>>>>),
      VDict(<<<<"Effect", VStr("Allow")>>, <<"Resource", VNull>>>>),
      VDict(<<<<"Effect", VStr("Allow")>>, <<"Resource", VList(<<VNull>>)>>>>),
      VDict(<<<<"Effect", VStr("Allow")>>, <<"Principal", VStr("*")>>>>),
      VDict(<<<<"Effect", VStr("Allow")>>, <<"Principal", Dict1("Service", VNull)>>>>) }

MalformedDocuments ==
    {Dict1("Statement", VList(<<st>>)) : st \in MalformedStatements}
    \cup {Dict1("Statement", v) : v \in {VNull, VStr("x"), VInt(1)}}

\* resources whose policy document holds a malformed statement
MalformedPolicies(id) ==
    {WithProperties(t, Dict1(f, doc)) :
        t \in supported_resources(id),
        f \in Fields(id) \cap {"PolicyDocument", "AssumeRolePolicyDocument", "KeyPolicy"},
        doc \in MalformedDocuments}
    \cup {WithProperties(t, Dict1(f, VList(<<Dict1("PolicyDocument", doc)>>))) :
        t \in supported_resources(id),
        f \in Fields(id) \cap {"Policies"},
        doc \in MalformedDocuments}

\* an intrinsic reference, which no rule can evaluate
Ref == Dict1("Ref", VStr("Param"))

\* FromPort and ToPort of an ingress rule
PortPairs ==
    { <<VInt(22), VInt(22)>>, <<VInt(0), VInt(65535)>>, <<VInt(3000), VInt(3000)>>,
      <<VInt(9090), VInt(9100)>>, <<VInt(80), VInt(80)>>, <<VStr("22"), VStr("22")>>,
      <<VStr("ssh"), VStr("ssh")>>, <<VInt(22), VStr("ssh")>>, <<VStr(""), VInt(65535)>>,
      <<Ref, Ref>>, <<VNull, VInt(22)>> }

IngressRule(ports) ==
    VDict(<<<<"IpProtocol", VStr("tcp")>>, <<"FromPort", ports[1]>>,
            <<"ToPort", ports[2]>>, <<"CidrIp", VStr("0.0.0.0/0")>>>>)

IngressRules == {IngressRule(ports) : ports \in PortPairs}

EgressRules ==
    {VDict(<<<<"IpProtocol", proto>>, <<"CidrIp", VStr(cidr)>>>>) :
        proto \in {VStr("-1"), VStr("tcp"), VInt(0 - 1)},
        cidr \in {"0.0.0.0/0", "10.0.0.0/8"}}

\* security groups with at most MaxRules inline rules, and standalone
\* ingress resources
SecurityGroups(id) ==
    IF id = "CKV_CUSTOM_SG_2"
    THEN {WithProperties("AWS::EC2::SecurityGroup",
                         Dict1("SecurityGroupEgress", VList(rs))) :
             rs \in SeqsUpTo(EgressRules, MaxRules)}
    ELSE {WithProperties("AWS::EC2::SecurityGroup",
                         Dict1("SecurityGroupIngress", VList(rs))) :
             rs \in SeqsUpTo(IngressRules, MaxRules)}
         \cup (IF id = "CKV_CUSTOM_SG_3"
               THEN {WithProperties("AWS::EC2::SecurityGroupIngress", r) :
                        r \in IngressRules}
               ELSE {})

\* the values of a numeric property: Size, RetentionInDays, MinSize
NumericValues ==
    { VInt(1), VInt(2), VInt(49), VInt(50), VInt(89), VInt(90),
      VStr("2"), VStr("50"), VStr("90"), VStr(" 90 "), VStr("9_0"), VStr("+90"),
      VStr("-1"), VStr("x"), VStr(""), VStr("1.5"), VStr("9__0"),
      VNull, VBool(TRUE), EmptyList, Ref }

MonitoringTags ==
    VList(<<VDict(<<<<"Key", VStr("Application")>>, <<"Value", VStr("Prometheus")>>>>)>>)

OtherTags ==
    VList(<<VDict(<<<<"Key", VStr("Name")>>, <<"Value", VStr("web")>>>>)>>)

Volumes ==
    {WithProperties("AWS::EC2::Volume", VDict(<<<<"Tags", tags>>, <<"Size", v>>>>)) :
        tags \in {MonitoringTags, OtherTags}, v \in NumericValues}
    \cup {WithProperties("AWS::EC2::Volume", Dict1("Tags", tags)) :
        tags \in {MonitoringTags, OtherTags}}

LogGroups ==
    {WithProperties("AWS::Logs::LogGroup", Dict1("RetentionInDays", v)) :
        v \in NumericValues}

AutoScalingGroups ==
    {WithProperties("AWS::AutoScaling::AutoScalingGroup", Dict1("MinSize", v)) :
        v \in NumericValues}

\* resources whose numeric fields hold coercible and non-coercible values
Numeric(id) ==
    CASE id \in SgRuleIds -> SecurityGroups(id)
      [] id = "CKV_CUSTOM_EBS_2" -> Volumes
      [] id = "CKV_CUSTOM_VPC_2" -> LogGroups
      [] id = "CKV_CUSTOM_ASG_2" -> AutoScalingGroups
      [] OTHER -> {}

\* the resources a rule is evaluated on
Resources(id) ==
    UNION {WithoutProperties(t) : t \in supported_resources(id)}
    \cup Malformed(id) \cup MalformedPolicies(id) \cup Numeric(id)

(***************************************************************************)
(* Policy documents: the rules that walk the statements of a document.     *)
(***************************************************************************)
PolicyRuleIds ==
    {"CKV_CUSTOM_IAM_2", "CKV_CUSTOM_KMS_1", "CKV_CUSTOM_SNS_2", "CKV_CUSTOM_SQS_1"}

\* a Condition testing aws:SecureTransport against v
SecureTransport(v) == Dict1("Bool", Dict1("aws:SecureTransport", v))

\* what a statement carries besides its Effect, per rule
StatementBodies(id) ==
    CASE id \in {"CKV_CUSTOM_SNS_2", "CKV_CUSTOM_SQS_1"} ->
            { <<>>,
              <<<<"Condition", SecureTransport(VStr("false"))>>>>,
              <<<<"Condition", SecureTransport(VBool(FALSE))>>>>,
              <<<<"Condition", SecureTransport(VStr("true"))>>>>,
              <<<<"Condition", SecureTransport(VBool(TRUE))>>>>,
              <<<<"Condition", Dict1("Bool", EmptyDict)>>>>,
              <<<<"Condition", EmptyDict>>>> }
      [] id = "CKV_CUSTOM_KMS_1" ->
            { <<>>,
              <<<<"Action", VStr("kms:*")>>>>,
              <<<<"Action", VStr("kms:Decrypt")>>>>,
              <<<<"Action", VList(<<VStr("kms:Decrypt"), VStr("kms:*")>>)>>>>,
              <<<<"Action", VList(<<VStr("kms:Decrypt")>>)>>>> }
      [] id = "CKV_CUSTOM_IAM_2" ->
            { <<>>,
              <<<<"Resource", VStr("*")>>>>,
              <<<<"Resource", VStr("arn:aws:iam::123456789012:role/app")>>>>,
              <<<<"Resource", VList(<<VStr("arn:aws:s3:::logs"),
                                      VStr("arn:aws:sqs:eu-west-1:123456789012:q")>>)>>>>,
              <<<<"Resource", VList(<<Ref>>)>>>> }

Statements(id) ==
    {VDict(<<<<"Effect", VStr(e)>>>> \o body) :
        e \in {"Allow", "Deny"}, body \in StatementBodies(id)}

\* documents whose Statement is a list of at most MaxStatements statements,
\* or a single statement object
Documents(id) ==
    {Dict1("Statement", VList(sts)) : sts \in SeqsUpTo(Statements(id), MaxStatements)}
    \cup {Dict1("Statement", st) : st \in Statements(id)}

\* key policies that reach the rule as JSON text
KeyPolicyTexts ==
    { VStr("{\"Statement\": [{\"Effect\": \"Allow\", \"Action\": \"kms:*\"}]}"),
      VStr("{\"Statement\": {\"Effect\": \"Allow\", \"Action\": [\"kms:Decrypt\", \"kms:*\"]}}"),
      VStr("{\"Statement\": [{\"Effect\": \"Deny\", \"Action\": \"kms:*\"}]}"),
      VStr("{\"Statement\": [{\"Effect\": \"Allow\", \"Action\": \"kms:Decrypt\"}]"),
      VStr("[1, 2]") }

PolicyResources(id) ==
    CASE id = "CKV_CUSTOM_SNS_2" ->
            {WithProperties("AWS::SNS::TopicPolicy", Dict1("PolicyDocument", doc)) :
                doc \in Documents(id)}
      [] id = "CKV_CUSTOM_SQS_1" ->
            {WithProperties("AWS::SQS::QueuePolicy", Dict1("PolicyDocument", doc)) :
                doc \in Documents(id)}
      [] id = "CKV_CUSTOM_KMS_1" ->
            {WithProperties("AWS::KMS::Key", Dict1("KeyPolicy", doc)) :
                doc \in Documents(id) \cup KeyPolicyTexts}
      [] id = "CKV_CUSTOM_IAM_2" ->
            {WithProperties("AWS::IAM::Policy", Dict1("PolicyDocument", doc)) :
                doc \in Documents(id)}
            \cup {WithProperties("AWS::IAM::Role",
                    Dict1("Policies", VList(<<VDict(<<<<"PolicyName", VStr("inline")>>,
                                                      <<"PolicyDocument", doc>>>>)>>))) :
                doc \in Documents(id)}

(***************************************************************************)
(* User data: the instances whose UserData is a script of at most MaxLines *)
(* lines, written as CDK synthesizes it (Fn::Base64 over Fn::Join).        *)
(***************************************************************************)
UserDataRuleIds ==
    {"CKV_CUSTOM_COMPUTE_1", "CKV_CUSTOM_COMPUTE_2", "CKV_CUSTOM_COMPUTE_4"}

HARDCODED == "PASSWORD=hunter2"

FROM_ENV == "PASSWORD=$SECRET_ENV"

SECRET_STORE == "aws secretsmanager get-secret-value --secret-id db"

STORE_REF == "DB_SECRET=secretsmanager_ref"

API_KEY_LINE == "export API_KEY = 'k3y'"

TOKEN_LINE ==
    "TOKEN=$(curl -X PUT http://169.254.169.254/latest/api/token -H \"X-aws-ec2-metadata-token-ttl-seconds: 60\")"

TOKENLESS_CALL == "curl http://169.254.169.254/latest/meta-data/instance-id"

TOKEN_CALL ==
    "curl -H \"X-aws-ec2-metadata-token: $TOKEN\" http://169.254.169.254/latest/meta-data/instance-id"

UNSAFE_LINE == "  - \"8080:80\""

SAFE_LINE == "  - \"127.0.0.1:3000:3000\""

\* the lines a script is made of, per rule
ScriptLines(id) ==
    CASE id = "CKV_CUSTOM_COMPUTE_1" ->
            {HARDCODED, FROM_ENV, SECRET_STORE, STORE_REF, API_KEY_LINE}
      [] id = "CKV_CUSTOM_COMPUTE_2" ->
            {TOKEN_LINE, TOKENLESS_CALL, TOKEN_CALL, "echo done"}
      [] id = "CKV_CUSTOM_COMPUTE_4" ->
            {"docker compose up -d", "ports:", UNSAFE_LINE, SAFE_LINE}

Script(lines) ==
    Dict1("Fn::Base64",
          Dict1("Fn::Join", VList(<<VStr(""), VList([i \in 1..Len(lines) |-> VStr(lines[i])])>>)))

Instances(id) ==
    {WithProperties("AWS::EC2::Instance", Dict1("UserData", Script(lines))) :
        lines \in SeqsUpTo(ScriptLines(id), MaxLines)}

(***************************************************************************)
(* The subtrees handed to the intrinsic resolver.                          *)
(***************************************************************************)
Literals == {VStr("a"), VStr("b"), VInt(1), VNull}

Join(separator, items) == Dict1("Fn::Join", VList(<<separator, items>>))

\* nodes over literals
Nodes1 ==
    Literals
    \cup {VList(l) : l \in SeqsUpTo(Literals, MaxItems)}
    \cup {Dict1(k, v) : k \in {"Fn::Base64", "Fn::Sub", "Ref"}, v \in Literals}
    \cup {Join(sep, VList(l)) :
            sep \in {VStr(""), VStr("sep")}, l \in SeqsUpTo({VStr("a"), VStr("b")}, MaxItems)}

\* the nodes nested under a list, a wrapper or a join
Inner ==
    { VStr("a"), VStr("b"), VList(<<VStr("a"), VStr("b")>>),
      Dict1("Fn::Sub", VStr("b")), Dict1("Ref", VStr("a")),
      Join(VStr("sep"), VList(<<VStr("b"), VStr("a")>>)),
      VDict(<<<<"Fn::Sub", VStr("a")>>, <<"Ref", VStr("b")>>>>) }

Separators == {VStr(""), VStr("sep"), VStr("a"), Dict1("Ref", VStr("sep"))}

UserDataNodes ==
    Nodes1
    \cup {VList(l) : l \in SeqsUpTo(Inner, MaxItems)}
    \cup {Dict1(k, v) : k \in {"Fn::Base64", "Fn::Sub"}, v \in Inner}
    \cup {Join(sep, VList(l)) : sep \in Separators, l \in SeqsUpTo(Inner, MaxItems)}
    \cup {Join(sep, v) : sep \in Separators, v \in Inner \cup {VNull}}
    \cup {Dict1("Fn::Join", VList(l)) : l \in SeqsUpTo({VStr("a"), VStr("b")}, 3)}
    \cup {Dict1("Fn::Join", VStr("a"))}

(***************************************************************************)
(* The state machine.  Rules keep no state between calls: an evaluation    *)
(* reads the resource and appends its result to the history.               *)
(***************************************************************************)
\* Checkov calls the check registered under the id `rule` on a resource of
\* a supported type and records what scan_resource_conf returns
Evaluate(result) ==
    /\ IsDict(conf)
    /\ Get0(conf, "Type").s \in supported_resources(rule)
    /\ Len(verdicts) < MaxEvals
    /\ verdicts' = Append(verdicts, result)
    /\ UNCHANGED <<conf, rule, userdata, extracted, bootVars>>

\* a rule resolves the UserData subtree of an instance
Resolve ==
    /\ rule = "_extract_userdata_strings"
    /\ Len(extracted) < MaxEvals
    /\ extracted' = Append(extracted, _extract_userdata_strings(userdata))
    /\ UNCHANGED <<conf, rule, verdicts, userdata, bootVars>>

Init ==
    /\ rule \in RuleIds
    /\ conf \in Resources(rule)
    /\ verdicts = <<>>
    /\ userdata = VNull
    /\ extracted = <<>>
    /\ NoBoot

Next ==
    \/ rule = "CKV_CUSTOM_SG_1" /\ Evaluate(SecurityGroupNoSSH(conf))
    \/ rule = "CKV_CUSTOM_SG_2" /\ Evaluate(SecurityGroupRestrictedEgress(conf))
    \/ rule = "CKV_CUSTOM_SG_3" /\ Evaluate(SecurityGroupNoFullPortRange(conf))
    \/ rule = "CKV_CUSTOM_SG_4" /\ Evaluate(SecurityGroupNoExternalMetricsPorts(conf))
    \/ rule = "CKV_CUSTOM_SG_5" /\ Evaluate(SecurityGroupNoDirectGrafana(conf))
    \/ rule = "CKV_CUSTOM_VPC_1" /\ Evaluate(LogGroupKmsEncryption(conf))
    \/ rule = "CKV_CUSTOM_VPC_2" /\ Evaluate(LogGroupRetentionProd(conf))
    \/ rule = "CKV_CUSTOM_VPC_3" /\ Evaluate(LogGroupDeletionPolicyRetain(conf))
    \/ rule = "CKV_CUSTOM_EBS_1" /\ Evaluate(EbsCustomerManagedKms(conf))
    \/ rule = "CKV_CUSTOM_EBS_2" /\ Evaluate(EbsMonitoringVolumeSize(conf))
    \/ rule = "CKV_CUSTOM_EBS_3" /\ Evaluate(EbsBackupStrategy(conf))
    \/ rule = "CKV_CUSTOM_COMPUTE_1" /\ Evaluate(NoHardcodedCredentialsInUserData(conf))
    \/ rule = "CKV_CUSTOM_COMPUTE_2" /\ Evaluate(UserDataIMDSv2Required(conf))
    \/ rule = "CKV_CUSTOM_COMPUTE_4" /\ Evaluate(DockerPortsBindLoopback(conf))
    \/ rule = "CKV_CUSTOM_VPC_5" /\ Evaluate(SubnetNoAutoPublicIp(conf))
    \/ rule = "CKV_CUSTOM_VPC_6" /\ Evaluate(VpcEndpointPolicy(conf))
    \/ rule = "CKV_CUSTOM_LAMBDA_1" /\ Evaluate(LambdaReservedConcurrency(conf))
    \/ rule = "CKV_CUSTOM_LAMBDA_2" /\ Evaluate(LambdaDlqConfigured(conf))
    \/ rule = "CKV_CUSTOM_IAM_1" /\ Evaluate(IamRoleHasPermissionsBoundary(conf))
    \/ rule = "CKV_CUSTOM_IAM_2" /\ Evaluate(IamPolicyNoHardcodedAccountIds(conf))
    \/ rule = "CKV_CUSTOM_IAM_3" /\ Evaluate(IamRoleNoStaticName(conf))
    \/ rule = "CKV_CUSTOM_IAM_4" /\ Evaluate(IamRoleLimitManagedPolicies(conf))
    \/ rule = "CKV_CUSTOM_IAM_5" /\ Evaluate(IamRoleHasPolicy(conf))
    \/ rule = "CKV_CUSTOM_KMS_1" /\ Evaluate(KmsNoWildcardActions(conf))
    \/ rule = "CKV_CUSTOM_KMS_2" /\ Evaluate(KmsDeletionPolicyRetain(conf))
    \/ rule = "CKV_CUSTOM_ASG_1" /\ Evaluate(AsgElbHealthCheck(conf))
    \/ rule = "CKV_CUSTOM_ASG_2" /\ Evaluate(AsgMinSizeHA(conf))
    \/ rule = "CKV_CUSTOM_SNS_1" /\ Evaluate(SnsTopicEncryption(conf))
    \/ rule = "CKV_CUSTOM_SNS_2" /\ Evaluate(SnsSslEnforcement(conf))
    \/ rule = "CKV_CUSTOM_SQS_1" /\ Evaluate(SqsQueuePolicyEnforcesSSL(conf))

Spec == Init /\ [][Next]_vars

\* the policy-walking rules on well-formed documents
InitPolicy ==
    /\ rule \in PolicyRuleIds
    /\ conf \in PolicyResources(rule)
    /\ verdicts = <<>>
    /\ userdata = VNull
    /\ extracted = <<>>
    /\ NoBoot

NextPolicy ==
    \/ rule = "CKV_CUSTOM_IAM_2" /\ Evaluate(IamPolicyNoHardcodedAccountIds(conf))
    \/ rule = "CKV_CUSTOM_KMS_1" /\ Evaluate(KmsNoWildcardActions(conf))
    \/ rule = "CKV_CUSTOM_SNS_2" /\ Evaluate(SnsSslEnforcement(conf))
    \/ rule = "CKV_CUSTOM_SQS_1" /\ Evaluate(SqsQueuePolicyEnforcesSSL(conf))

SpecPolicy == InitPolicy /\ [][NextPolicy]_vars

\* the user-data rules on scripts
InitUserData ==
    /\ rule \in UserDataRuleIds
    /\ conf \in Instances(rule)
    /\ verdicts = <<>>
    /\ userdata = VNull
    /\ extracted = <<>>
    /\ NoBoot

NextUserData ==
    \/ rule = "CKV_CUSTOM_COMPUTE_1" /\ Evaluate(NoHardcodedCredentialsInUserData(conf))
    \/ rule = "CKV_CUSTOM_COMPUTE_2" /\ Evaluate(UserDataIMDSv2Required(conf))
    \/ rule = "CKV_CUSTOM_COMPUTE_4" /\ Evaluate(DockerPortsBindLoopback(conf))

SpecUserData == InitUserData /\ [][NextUserData]_vars

\* the intrinsic resolver on its own
InitResolve ==
    /\ rule = "_extract_userdata_strings"
    /\ conf = VNull
    /\ verdicts = <<>>
    /\ userdata \in UserDataNodes
    /\ extracted = <<>>
    /\ NoBoot

NextResolve == Resolve

SpecResolve == InitResolve /\ [][NextResolve]_vars

\* the shapes the resolver does not recognize
Unrecognized ==
    { VNull, VBool(TRUE), VBool(FALSE), VInt(0), EmptyList, EmptyDict,
      Dict1("Fn::Join", EmptyList),
      Dict1("Fn::Join", VList(<<VStr("a")>>)),
      Dict1("Fn::Join", VList(<<VStr("a"), VStr("b"), VStr("a")>>)),
      Dict1("Fn::Join", VStr("a")),
      Dict1("Fn::Join", VNull),
      Dict1("Fn::Join", Dict1("x", VStr("a"))) }

\* the unrecognized shapes on their own and nested under a list, a wrapper,
\* a join and an unknown key
AnyNodes ==
    UserDataNodes
    \cup Unrecognized
    \cup {VList(<<VStr("a"), x, VStr("b")>>) : x \in Unrecognized}
    \cup {Dict1(k, x) : k \in {"Fn::Base64", "Fn::Sub", "Ref"}, x \in Unrecognized}
    \cup {Join(VStr("sep"), VList(<<x, VStr("a")>>)) : x \in Unrecognized}
    \cup {Join(VStr("sep"), x) : x \in Unrecognized}

\* the strings of a resolution as a list node
AsListNode(strings) == VList([j \in 1..Len(strings) |-> VStr(strings[j])])

\* the resolver is applied to its own last result, taken as a list node
ResolveAgain ==
    /\ rule = "_extract_userdata_strings"
    /\ extracted # <<>>
    /\ Len(extracted) < MaxEvals
    /\ userdata' = AsListNode(extracted[Len(extracted)])
    /\ extracted' = Append(extracted, _extract_userdata_strings(userdata'))
    /\ UNCHANGED <<conf, rule, verdicts, bootVars>>

\* the resolver on any finite tree, and on its own results
InitResolveAny ==
    /\ rule = "_extract_userdata_strings"
    /\ conf = VNull
    /\ verdicts = <<>>
    /\ userdata \in AnyNodes
    /\ extracted = <<>>
    /\ NoBoot

NextResolveAny == Resolve \/ ResolveAgain

SpecResolveAny == InitResolveAny /\ [][NextResolveAny]_vars

(***************************************************************************)
(* The port parser on its own: conf holds the ingress rule, verdicts what  *)
(* _parse_ports returned for it.                                           *)
(***************************************************************************)
\* the values FromPort and ToPort may hold
PortValues ==
    { VInt(0), VInt(22), VInt(65535), VBool(TRUE),
      VStr("22"), VStr(" 90 "), VStr("x"), VStr(""), VStr("1.5"),
      VNull, EmptyList, Ref }

\* a field of an ingress rule, absent or holding v
Optional(k, vs) == {<<>>} \cup {<<<<k, v>>>> : v \in vs}

PortRules ==
    {VDict(<<<<"IpProtocol", VStr("tcp")>>>> \o f \o t) :
        f \in Optional("FromPort", PortValues), t \in Optional("ToPort", PortValues)}

\* a rule of a security group reads the ports of an ingress rule
ParsePorts ==
    /\ rule = "_parse_ports"
    /\ Len(verdicts) < MaxEvals
    /\ verdicts' = Append(verdicts, _parse_ports(conf))
    /\ UNCHANGED <<conf, rule, userdata, extracted, bootVars>>

InitPorts ==
    /\ rule = "_parse_ports"
    /\ conf \in PortRules
    /\ verdicts = <<>>
    /\ userdata = VNull
    /\ extracted = <<>>
    /\ NoBoot

NextPorts == ParsePorts

SpecPorts == InitPorts /\ [][NextPorts]_vars

(***************************************************************************)
(* Ingress rules: the port and source combinations the ingress rules of    *)
(* the security-group checks distinguish.                                  *)
(***************************************************************************)
MaxIngress == 2

IngressRuleIds ==
    {"CKV_CUSTOM_SG_1", "CKV_CUSTOM_SG_3", "CKV_CUSTOM_SG_4", "CKV_CUSTOM_SG_5"}

Ports(f, t) == <<<<"FromPort", f>>, <<"ToPort", t>>>>

\* FromPort and ToPort of an ingress rule
IngressPorts ==
    { Ports(VInt(20), VInt(23)), Ports(VInt(23), VInt(80)),
      Ports(VInt(0), VInt(999)), Ports(VInt(0), VInt(1000)),
      Ports(VInt(1000), VInt(0)), Ports(VInt(3000), VInt(3000)),
      Ports(VInt(9000), VInt(9200)), Ports(VInt(9100), VInt(9090)),
      Ports(VStr("22"), VStr("22")), Ports(VStr("x"), VInt(9100)),
      <<<<"ToPort", VInt(3000)>>>> }

\* where an ingress rule lets traffic in from
IngressSources ==
    { <<>>,
      <<<<"CidrIp", VStr("10.0.0.0/8")>>>>,
      <<<<"CidrIpv6", VStr("::/0")>>>>,
      <<<<"SourceSecurityGroupId", VStr("sg-1")>>>>,
      <<<<"CidrIp", VStr("10.0.0.0/8")>>, <<"SourceSecurityGroupId", VStr("sg-1")>>>>,
      <<<<"CidrIpv6", VStr("::/0")>>, <<"SourceSecurityGroupName", VStr("web")>>>> }

SourcedRules ==
    {VDict(<<<<"IpProtocol", VStr("tcp")>>>> \o ports \o source) :
        ports \in IngressPorts, source \in IngressSources}

\* the rules a rule under test shares its security group with: a harmless
\* one, one open to everything, and an item that is not a rule
Companions ==
    { VDict(<<<<"IpProtocol", VStr("tcp")>>, <<"FromPort", VInt(443)>>,
              <<"ToPort", VInt(443)>>, <<"SourceSecurityGroupId", VStr("sg-2")>>>>),
      VDict(<<<<"IpProtocol", VStr("tcp")>>, <<"FromPort", VInt(0)>>,
              <<"ToPort", VInt(65535)>>, <<"CidrIp", VStr("0.0.0.0/0")>>>>),
      VStr("x") }

\* the sequence q with x put in at position k
InsertAt(q, k, x) == SubSeq(q, 1, k - 1) \o <<x>> \o SubSeq(q, k, Len(q))

\* the ingress lists of at most MaxIngress rules, one of them any rule and
\* the others companions
IngressLists ==
    {<<>>}
    \cup UNION {{InsertAt(cs, k, r) : r \in SourcedRules, k \in 1..(Len(cs) + 1)} :
                  cs \in SeqsUpTo(Companions, MaxIngress - 1)}

IngressResources(id) ==
    {WithProperties("AWS::EC2::SecurityGroup", Dict1("SecurityGroupIngress", VList(rs))) :
        rs \in IngressLists}
    \cup (IF id = "CKV_CUSTOM_SG_3"
          THEN {WithProperties("AWS::EC2::SecurityGroupIngress", r) : r \in SourcedRules}
          ELSE {})

InitIngress ==
    /\ rule \in IngressRuleIds
    /\ conf \in IngressResources(rule)
    /\ verdicts = <<>>
    /\ userdata = VNull
    /\ extracted = <<>>
    /\ NoBoot

NextIngress ==
    \/ rule = "CKV_CUSTOM_SG_1" /\ Evaluate(SecurityGroupNoSSH(conf))
    \/ rule = "CKV_CUSTOM_SG_3" /\ Evaluate(SecurityGroupNoFullPortRange(conf))
    \/ rule = "CKV_CUSTOM_SG_4" /\ Evaluate(SecurityGroupNoExternalMetricsPorts(conf))
    \/ rule = "CKV_CUSTOM_SG_5" /\ Evaluate(SecurityGroupNoDirectGrafana(conf))

SpecIngress == InitIngress /\ [][NextIngress]_vars

(***************************************************************************)
(* Volumes: the encryption and size fields of an EBS volume, next to the   *)
(* security groups that have no properties.                                *)
(***************************************************************************)
VolumeRuleIds == {"CKV_CUSTOM_EBS_1", "CKV_CUSTOM_EBS_2"}

\* the values of Encrypted
EncryptedValues ==
    { VBool(TRUE), VBool(FALSE), VStr("true"), VStr(""), VInt(1), VInt(0), VNull }

\* the values of KmsKeyId
KmsKeyIds ==
    { VStr("arn:aws:kms:eu-west-1:111122223333:key/abc"), VStr("alias/data"),
      Ref, VStr(""), VNull, EmptyDict, EmptyList, VInt(0) }

\* the tag lists of a volume: tags that mark it as a monitoring volume ...
MonitoringTagLists ==
    { MonitoringTags,
      VList(<<VDict(<<<<"Key", VStr("purpose")>>, <<"Value", VStr("grafana-dashboards")>>>>)>>),
      VList(<<VStr("x"),
              VDict(<<<<"Key", VStr("Name")>>, <<"Value", VStr("web")>>>>),
              VDict(<<<<"Key", VStr("PROJECT")>>, <<"Value", VStr("cdk-Monitoring")>>>>)>>) }

\* ... and tags that do not
OtherTagLists ==
    { OtherTags, EmptyList,
      VList(<<VDict(<<<<"Key", VStr("Name")>>, <<"Value", VStr("prometheus")>>>>)>>),
      VList(<<VDict(<<<<"Key", VStr("Application")>>, <<"Value", VStr("web")>>>>)>>),
      VList(<<VStr("monitoring"), VDict(<<<<"Key", VStr("Purpose")>>>>)>>) }

\* the values of Size
VolumeSizes ==
    { VInt(0), VInt(49), VInt(50), VInt(51), VInt(500), VInt(-1),
      VStr("49"), VStr("50"), VStr(" 50 "), VStr("5_0"), VStr("+50"),
      VStr("x"), VStr(""), VStr("50.0"), VStr("50GB"),
      VNull, VBool(TRUE), EmptyList, Ref }

\* a resource of the type with Properties absent, null or empty
NoProperties(type) ==
    WithoutProperties(type)
    \cup {WithProperties(type, EmptyDict), WithProperties(type, VNull)}

VolumeResources(id) ==
    IF id = "CKV_CUSTOM_EBS_1"
    THEN {WithProperties("AWS::EC2::Volume", VDict(e \o k \o s)) :
             e \in Optional("Encrypted", EncryptedValues),
             k \in Optional("KmsKeyId", KmsKeyIds),
             s \in Optional("Size", {VInt(100)})}
         \cup NoProperties("AWS::EC2::Volume")
    ELSE IF id = "CKV_CUSTOM_EBS_2"
    THEN {WithProperties("AWS::EC2::Volume", VDict(t \o s \o e)) :
             t \in Optional("Tags", MonitoringTagLists \cup OtherTagLists),
             s \in Optional("Size", VolumeSizes),
             e \in Optional("Encrypted", {VBool(TRUE)})}
         \cup NoProperties("AWS::EC2::Volume")
    ELSE UNION {NoProperties(t) : t \in supported_resources(id)}

InitVolume ==
    /\ rule \in VolumeRuleIds \cup SgRuleIds
    /\ conf \in VolumeResources(rule)
    /\ verdicts = <<>>
    /\ userdata = VNull
    /\ extracted = <<>>
    /\ NoBoot

NextVolume ==
    \/ rule = "CKV_CUSTOM_EBS_1" /\ Evaluate(EbsCustomerManagedKms(conf))
    \/ rule = "CKV_CUSTOM_EBS_2" /\ Evaluate(EbsMonitoringVolumeSize(conf))
    \/ rule = "CKV_CUSTOM_SG_1" /\ Evaluate(SecurityGroupNoSSH(conf))
    \/ rule = "CKV_CUSTOM_SG_2" /\ Evaluate(SecurityGroupRestrictedEgress(conf))
    \/ rule = "CKV_CUSTOM_SG_3" /\ Evaluate(SecurityGroupNoFullPortRange(conf))
    \/ rule = "CKV_CUSTOM_SG_4" /\ Evaluate(SecurityGroupNoExternalMetricsPorts(conf))
    \/ rule = "CKV_CUSTOM_SG_5" /\ Evaluate(SecurityGroupNoDirectGrafana(conf))

SpecVolume == InitVolume /\ [][NextVolume]_vars

(***************************************************************************)
(* Roles: the permissions boundary, the trust policy and the managed       *)
(* policies of an IAM role.                                                *)
(***************************************************************************)
MaxArns == 5

RoleRuleIds == {"CKV_CUSTOM_IAM_1", "CKV_CUSTOM_IAM_4"}

\* the values of PermissionsBoundary
Boundaries ==
    { VStr("arn:aws:iam::111122223333:policy/boundary"), Ref, VStr(""), VNull }

\* service principals of service-linked roles, and other service principals
LinkedServices ==
    { "autoscaling.amazonaws.com", "elasticmapreduce.amazonaws.com",
      "application-autoscaling.amazonaws.com" }

OtherServices == { "ec2.amazonaws.com", "lambda.amazonaws.com" }

\* the Principal of a trust-policy statement
Principals ==
    {Dict1("Service", VStr(s)) : s \in LinkedServices \cup OtherServices}
    \cup {Dict1("Service", VList(<<VStr(s)>>)) : s \in {"autoscaling.amazonaws.com", "ec2.amazonaws.com"}}
    \cup { Dict1("Service", VList(<<VStr("ec2.amazonaws.com"), VStr("elasticmapreduce.amazonaws.com")>>)),
           Dict1("AWS", VStr("arn:aws:iam::111122223333:root")),
           VStr("*") }

TrustStatement(principal) ==
    VDict(<<<<"Effect", VStr("Allow")>>, <<"Principal", principal>>,
            <<"Action", VStr("sts:AssumeRole")>>>>)

\* trust policies of at most MaxStatements statements, and trust policies
\* whose Statement is a single statement
TrustPolicies ==
    {VDict(<<<<"Version", VStr("2012-10-17")>>, <<"Statement", VList(stmts)>>>>) :
        stmts \in SeqsUpTo({TrustStatement(p) : p \in Principals}, MaxStatements)}
    \cup {VDict(<<<<"Version", VStr("2012-10-17")>>, <<"Statement", TrustStatement(p)>>>>) :
        p \in Principals}

\* the entries of ManagedPolicyArns: an AWS managed policy, a customer
\* managed one, an AWS managed one of another partition, an intrinsic
PolicyArns ==
    { VStr("arn:aws:iam::aws:policy/ReadOnlyAccess"),
      VStr("arn:aws:iam::111122223333:policy/app"),
      VStr("arn:aws-cn:iam::aws:policy/ReadOnlyAccess"),
      Ref }

RoleResources(id) ==
    IF id = "CKV_CUSTOM_IAM_1"
    THEN {WithProperties("AWS::IAM::Role", VDict(b \o a)) :
             b \in Optional("PermissionsBoundary", Boundaries),
             a \in Optional("AssumeRolePolicyDocument", TrustPolicies)}
         \cup NoProperties("AWS::IAM::Role")
    ELSE {WithProperties("AWS::IAM::Role", VDict(m \o a)) :
             m \in Optional("ManagedPolicyArns",
                            {VList(arns) : arns \in SeqsUpTo(PolicyArns, MaxArns)}
                            \cup PolicyArns),
             a \in Optional("RoleName", {VStr("app")})}
         \cup NoProperties("AWS::IAM::Role")

InitRole ==
    /\ rule \in RoleRuleIds
    /\ conf \in RoleResources(rule)
    /\ verdicts = <<>>
    /\ userdata = VNull
    /\ extracted = <<>>
    /\ NoBoot

NextRole ==
    \/ rule = "CKV_CUSTOM_IAM_1" /\ Evaluate(IamRoleHasPermissionsBoundary(conf))
    \/ rule = "CKV_CUSTOM_IAM_4" /\ Evaluate(IamRoleLimitManagedPolicies(conf))

SpecRole == InitRole /\ [][NextRole]_vars

(***************************************************************************)
(* Account ids: the Resource entries of the statements of the inline       *)
(* policies of a role and of the PolicyDocument of a policy.               *)
(***************************************************************************)
\* Resource entries that carry an account id between colons ...
HardcodedEntries ==
    { VStr("arn:aws:iam::123456789012:role/app"),
      VStr("arn:aws:sqs:eu-west-1:123456789012:q") }

\* ... and entries that do not: the wildcard, ARNs without an account,
\* with 11 or 13 digits, digits outside the colons, intrinsics
OtherEntries ==
    { VStr("*"), VStr("arn:aws:s3:::logs"),
      VStr("arn:aws:iam::12345678901:role/app"),
      VStr("arn:aws:iam::1234567890123:role/app"),
      VStr("arn:aws:iam::aws:policy/123456789012"),
      Dict1("Fn::Sub", VStr("arn:aws:iam::123456789012:role/${Name}")) }

\* the Resource of a statement: absent, one entry, a list of at most
\* MaxItems entries
ResourceFields ==
    Optional("Resource",
             HardcodedEntries \cup OtherEntries
             \cup {VList(es) : es \in SeqsUpTo(HardcodedEntries \cup OtherEntries, MaxItems)})

AllowStatement(resource) ==
    VDict(<<<<"Effect", VStr("Allow")>>, <<"Action", VStr("sts:AssumeRole")>>>> \o resource)

\* what a statement under test shares its document with: a statement on
\* every resource and an item that is not a statement
CompanionStatements == { AllowStatement(<<<<"Resource", VStr("*")>>>>), VStr("x") }

\* the policy documents of at most MaxStatements statements, one of them
\* any statement and the others companions
AccountDocuments ==
    {Dict1("Statement", VList(sts)) :
        sts \in UNION {{InsertAt(cs, k, AllowStatement(r)) :
                           r \in ResourceFields, k \in 1..(Len(cs) + 1)} :
                         cs \in SeqsUpTo(CompanionStatements, MaxStatements - 1)}}

InlinePolicy(doc) ==
    VDict(<<<<"PolicyName", VStr("inline")>>, <<"PolicyDocument", doc>>>>)

CleanDocument == Dict1("Statement", VList(<<AllowStatement(<<<<"Resource", VStr("*")>>>>)>>))

\* a policy with the document, and roles that carry it as their only
\* inline policy, after another inline policy, or as their own document
AccountResources ==
    UNION {{ WithProperties("AWS::IAM::Policy", Dict1("PolicyDocument", doc)),
             WithProperties("AWS::IAM::Role", Dict1("Policies", VList(<<InlinePolicy(doc)>>))),
             WithProperties("AWS::IAM::Role",
                 Dict1("Policies", VList(<<VStr("x"), InlinePolicy(CleanDocument),
                                           InlinePolicy(doc)>>))),
             WithProperties("AWS::IAM::Role",
                 VDict(<<<<"Policies", VList(<<InlinePolicy(CleanDocument)>>)>>,
                         <<"PolicyDocument", doc>>>>)) } :
           doc \in AccountDocuments}

InitAccount ==
    /\ rule = "CKV_CUSTOM_IAM_2"
    /\ conf \in AccountResources
    /\ verdicts = <<>>
    /\ userdata = VNull
    /\ extracted = <<>>
    /\ NoBoot

NextAccount == rule = "CKV_CUSTOM_IAM_2" /\ Evaluate(IamPolicyNoHardcodedAccountIds(conf))

SpecAccount == InitAccount /\ [][NextAccount]_vars

(***************************************************************************)
(* Log groups: the retention of a log group and its lifecycle policies.    *)
(***************************************************************************)
LogGroupRuleIds == {"CKV_CUSTOM_VPC_2", "CKV_CUSTOM_VPC_3"}

\* the values of RetentionInDays
Retentions ==
    { VInt(0), VInt(1), VInt(89), VInt(90), VInt(91), VInt(365), VInt(-1),
      VStr("89"), VStr("90"), VStr(" 90 "), VStr("9_0"), VStr("+90"),
      VStr("x"), VStr(""), VStr("90.0"), VStr("90d"),
      VBool(TRUE), EmptyList, Ref }

\* the values of DeletionPolicy and UpdateReplacePolicy
LifecyclePolicies ==
    { VStr("Retain"), VStr("Delete"), VStr("Snapshot"), VStr("RetainExceptOnCreate"),
      VStr("retain") }

\* the Properties member of a log group: absent, null, empty, a mapping
LogGroupProperties ==
    Optional("Properties",
             { VNull, EmptyDict, Dict1("RetentionInDays", VInt(90)),
               Dict1("LogGroupName", VStr("/vpc/flow")) })

LogGroupResources(id) ==
    IF id = "CKV_CUSTOM_VPC_2"
    THEN {VDict(<<<<"Type", VStr("AWS::Logs::LogGroup")>>>> \o d
                \o <<<<"Properties", VDict(n \o r)>>>>) :
             d \in Optional("DeletionPolicy", {VStr("Retain")}),
             n \in Optional("LogGroupName", {VStr("/vpc/flow")}),
             r \in Optional("RetentionInDays", Retentions \cup {VNull})}
         \cup {VDict(<<<<"Type", VStr("AWS::Logs::LogGroup")>>>> \o d) :
                 d \in Optional("DeletionPolicy", {VStr("Retain")})}
    ELSE {VDict(<<<<"Type", VStr("AWS::Logs::LogGroup")>>>> \o d \o u \o p) :
             d \in Optional("DeletionPolicy", LifecyclePolicies),
             u \in Optional("UpdateReplacePolicy", LifecyclePolicies),
             p \in LogGroupProperties}

InitLogGroup ==
    /\ rule \in LogGroupRuleIds
    /\ conf \in LogGroupResources(rule)
    /\ verdicts = <<>>
    /\ userdata = VNull
    /\ extracted = <<>>
    /\ NoBoot

NextLogGroup ==
    \/ rule = "CKV_CUSTOM_VPC_2" /\ Evaluate(LogGroupRetentionProd(conf))
    \/ rule = "CKV_CUSTOM_VPC_3" /\ Evaluate(LogGroupDeletionPolicyRetain(conf))

SpecLogGroup == InitLogGroup /\ [][NextLogGroup]_vars

(***************************************************************************)
(* A scan: the checks are module-level instances that Checkov calls on the *)
(* resources of a stack in no fixed order, any pair any number of times.   *)
(* Here conf is the stack and verdicts the evaluations made so far, each   *)
(* <<rule id, position of the resource, verdict>>.                         *)
(***************************************************************************)
MaxScan == 3

ScanRuleIds ==
    {"CKV_CUSTOM_COMPUTE_1", "CKV_CUSTOM_COMPUTE_2", "CKV_CUSTOM_SG_1", "CKV_CUSTOM_VPC_2"}

ScanResources ==
    { WithProperties("AWS::EC2::Instance", Dict1("UserData", Script(<<HARDCODED>>))),
      WithProperties("AWS::EC2::Instance",
                     Dict1("UserData", Script(<<TOKEN_LINE, TOKEN_CALL>>))),
      WithProperties("AWS::EC2::SecurityGroup",
                     Dict1("SecurityGroupIngress",
                           VList(<<VDict(<<<<"IpProtocol", VStr("tcp")>>,
                                           <<"FromPort", VInt(22)>>, <<"ToPort", VInt(22)>>,
                                           <<"CidrIp", VStr("0.0.0.0/0")>>>>)>>))),
      WithProperties("AWS::Logs::LogGroup", Dict1("RetentionInDays", VStr("x"))) }

Stacks == {VList(<<a, b>>) : a \in ScanResources, b \in ScanResources}

\* one evaluation: scan_resource_conf of the check `id` on the resource at
\* `index`; it reads the resource and returns a verdict, and the stack and
\* the checks are as they were
EvaluatePair(id, index) ==
    /\ rule = "scan"
    /\ Len(verdicts) < MaxScan
    /\ Get0(conf.l[index], "Type").s \in supported_resources(id)
    /\ verdicts' = Append(verdicts, <<id, index, scan_resource_conf(id, conf.l[index])>>)
    /\ UNCHANGED <<conf, rule, userdata, extracted, bootVars>>

InitScan ==
    /\ rule = "scan"
    /\ conf \in Stacks
    /\ verdicts = <<>>
    /\ userdata = VNull
    /\ extracted = <<>>
    /\ NoBoot

NextScan == \E id \in ScanRuleIds, index \in 1..2 : EvaluatePair(id, index)

SpecScan == InitScan /\ [][NextScan]_vars

(***************************************************************************)
(* The orchestrator (SpecRunSteps): one call of run_steps on a list of      *)
(* step names.  A step's main() either returns or raises an Exception; the  *)
(* publish of the progress to SSM either succeeds or raises.                *)
(***************************************************************************)

MaxSteps == 3

StepNames == {"01_validate_ami", "join_cluster"}

StepLists == SeqsUpTo(StepNames, MaxSteps)

\* StepStatus: the fields of a status that the orchestrator sets
StepStatus(step_name, status) == <<step_name, status>>

\* write_status: the status file holds the steps of the list it is given
write_status(statuses) == statuses

\* ContinueAfterFailure: the loop goes on whatever the step did
ContinueAfterFailure(all_ok) == "loop"

\* run_steps, "Stop on failure": where the loop goes after the publish
StopOnFailure(all_ok) == IF ~all_ok THEN "end" ELSE "loop"

\* run_steps, the dry run: the list is printed, nothing is executed
DryRun ==
    /\ pc = "run_steps"
    /\ locals.dry_run
    /\ returned' = Append(returned, TRUE)
    /\ pc' = "done"
    /\ UNCHANGED <<locals, files, status_file, ssm, trace, ruleVars>>

\* run_steps, the head of the loop: the next step is "running"
StartStep ==
    /\ pc \in {"run_steps", "loop"}
    /\ ~locals.dry_run
    /\ locals.i < Len(locals.step_names)
    /\ locals' = [locals EXCEPT
           !.i = @ + 1,
           !.status = StepStatus(locals.step_names[locals.i + 1], "running")]
    /\ pc' = "main"
    /\ UNCHANGED <<files, status_file, ssm, trace, returned, ruleVars>>

\* run_steps, try / except Exception / finally around module.main()
StepMain(raises) ==
    /\ pc = "main"
    /\ LET name == locals.status[1]
           status == StepStatus(name, IF raises THEN "failed" ELSE "success")
           statuses == Append(locals.statuses, status)
       IN  /\ locals' = [locals EXCEPT
                  !.status = status,
                  !.all_ok = IF raises THEN FALSE ELSE @,
                  !.statuses = statuses]
           /\ status_file' = write_status(statuses)
           /\ trace' = Append(trace, name)
    /\ pc' = "publish"
    /\ UNCHANGED <<files, ssm, returned, ruleVars>>

\* run_steps, the publish of the progress: an Exception of ssm_put is dropped
PublishProgress(raises) ==
    /\ pc = "publish"
    /\ ssm' = IF raises THEN ssm
              ELSE Append(ssm, <<"bootstrap/step-status", locals.status>>)
    /\ pc' = StopOnFailure(locals.all_ok)
    /\ UNCHANGED <<locals, files, status_file, trace, returned, ruleVars>>

\* run_steps, after the loop: all_ok is returned
ReturnAllOk ==
    /\ \/ pc = "end"
       \/ /\ pc \in {"run_steps", "loop"}
          /\ ~locals.dry_run
          /\ locals.i = Len(locals.step_names)
    /\ returned' = Append(returned, locals.all_ok)
    /\ pc' = "done"
    /\ UNCHANGED <<locals, files, status_file, ssm, trace, ruleVars>>

InitRunSteps ==
    /\ NoRule
    /\ pc = "run_steps"
    /\ \E step_names \in StepLists, dry_run \in BOOLEAN :
           locals = [step_names |-> step_names, dry_run |-> dry_run,
                     statuses |-> <<>>, all_ok |-> TRUE, i |-> 0,
                     status |-> <<>>]
    /\ files = {}
    /\ status_file = <<>>
    /\ ssm = <<>>
    /\ trace = <<>>
    /\ returned = <<>>

NextRunSteps ==
    \/ DryRun
    \/ StartStep
    \/ \E raises \in BOOLEAN : StepMain(raises)
    \/ \E raises \in BOOLEAN : PublishProgress(raises)
    \/ ReturnAllOk

SpecRunSteps == InitRunSteps /\ [][NextRunSteps]_vars

(***************************************************************************)
(* StepRunner (SpecStepRunner): a step is run several times on one node,    *)
(* with or without a marker file.  The body of the with statement returns  *)
(* or raises, and may itself create the marker file, as kubeadm does.       *)
(***************************************************************************)

MaxRuns == 3

ADMIN_CONF == "/etc/kubernetes/admin.conf"

\* is_already_done: the marker file exists
is_already_done(marker_file) == marker_file \in files

\* mark_done: the marker file exists from now on
mark_done(marker_file) == files \cup {marker_file}

\* the marker is also touched when the body raised
ExitMarksAlways(self, exc) ==
    [status |-> IF self.status = "skipped" THEN "skipped"
                ELSE IF exc THEN "failed" ELSE "success",
     marks |-> self.status # "skipped" /\ self.skip_if # "",
     suppress |-> FALSE]

\* StepRunner.__exit__: the final status, whether mark_done is called, and
\* the value returned to the with statement (True would drop the exception)
__exit__(self, exc) ==
    IF self.status = "skipped"
    THEN [status |-> "skipped", marks |-> FALSE, suppress |-> FALSE]
    ELSE IF exc
    THEN [status |-> "failed", marks |-> FALSE, suppress |-> FALSE]
    ELSE [status |-> "success", marks |-> self.skip_if # "",
          suppress |-> FALSE]

\* StepRunner.__init__; skip_if is a path, or "" for None (both are falsy)
NewStepRunner(skip_if) ==
    /\ pc = "idle"
    /\ Len(returned) < MaxRuns
    /\ locals' = [step_name |-> "init-kubeadm", skip_if |-> skip_if,
                  status |-> "running", exc |-> FALSE]
    /\ trace' = <<>>
    /\ pc' = "enter"
    /\ UNCHANGED <<files, status_file, ssm, returned, ruleVars>>

\* StepRunner.__enter__
EnterStep ==
    /\ pc = "enter"
    /\ IF locals.skip_if # ""
       THEN /\ trace' = Append(trace, <<"is_already_done",
                                        is_already_done(locals.skip_if)>>)
            /\ locals' = [locals EXCEPT !.status =
                   IF is_already_done(locals.skip_if) THEN "skipped" ELSE @]
       ELSE UNCHANGED <<trace, locals>>
    /\ pc' = "body"
    /\ UNCHANGED <<files, status_file, ssm, returned, ruleVars>>

\* the body of the with statement
StepBody(raises, created) ==
    /\ pc = "body"
    /\ locals' = [locals EXCEPT !.exc = raises]
    /\ files' = files \cup created
    /\ trace' = Append(trace, <<"body", raises>>)
    /\ pc' = "exit"
    /\ UNCHANGED <<status_file, ssm, returned, ruleVars>>

\* StepRunner.__exit__ and the end of the with statement
ExitStep ==
    /\ pc = "exit"
    /\ LET exit == __exit__(locals, locals.exc)
       IN  /\ locals' = [locals EXCEPT !.status = exit.status]
           /\ files' = IF exit.marks THEN mark_done(locals.skip_if)
                       ELSE files
           /\ trace' = IF exit.marks
                       THEN Append(trace, <<"mark_done", TRUE>>)
                       ELSE trace
           /\ returned' = Append(returned,
                  [status |-> exit.status,
                   raised |-> locals.exc /\ ~exit.suppress])
    /\ pc' = "idle"
    /\ UNCHANGED <<status_file, ssm, ruleVars>>

InitStepRunner ==
    /\ NoRule
    /\ pc = "idle"
    /\ locals = <<>>
    /\ files \in SUBSET {ADMIN_CONF}
    /\ status_file = <<>>
    /\ ssm = <<>>
    /\ trace = <<>>
    /\ returned = <<>>

NextStepRunner ==
    \/ \E skip_if \in {"", ADMIN_CONF} : NewStepRunner(skip_if)
    \/ EnterStep
    \/ \E raises \in BOOLEAN, created \in SUBSET {ADMIN_CONF} :
           StepBody(raises, created)
    \/ ExitStep

SpecStepRunner == InitStepRunner /\ [][NextStepRunner]_vars

(***************************************************************************)
(* The worker's join (SpecJoin): one call of join_cluster.  What SSM       *)
(* returns for the join token and the CA hash may change from one attempt  *)
(* to the next ("" stands for a parameter that ssm_get reports as None);   *)
(* kubeadm join exits 0, exits non-zero or runs into its timeout.          *)
(***************************************************************************)

\* JOIN_MAX_RETRIES is read from the environment (default 10)
JOIN_MAX_RETRIES == 3

JoinTokens == {"", "token-a", "token-b"}

CaHashes == {"", "sha256:ca"}

\* one attempt more than configured
OneAttemptMore == 1..(JOIN_MAX_RETRIES + 1)

\* join_cluster: range(1, JOIN_MAX_RETRIES + 1)
Attempts == 1..JOIN_MAX_RETRIES

\* what join_cluster called: the command, the attempt, its arguments and
\* its outcome
Called(command, attempt, x, y, outcome) == <<command, attempt, x, y, outcome>>

\* a return or a raise ends the call
EndCall(exception) ==
    /\ returned' = Append(returned, exception)
    /\ pc' = "done"

\* join_cluster, before the loop: containerd is started (check=True) and the
\* kubelet arguments are written
StartContainerd(returncode) ==
    /\ pc = "join_cluster"
    /\ trace' = Append(trace,
           Called("systemctl start containerd", 0, "", "", returncode))
    /\ IF returncode # "0"
       THEN /\ EndCall(IF returncode = "timeout" THEN "TimeoutExpired"
                       ELSE "CalledProcessError")
            /\ UNCHANGED files
       ELSE /\ files' = files \cup {"/etc/sysconfig/kubelet"}
            /\ pc' = "for"
            /\ UNCHANGED returned
    /\ UNCHANGED <<locals, status_file, ssm, ruleVars>>

\* join_cluster: the for statement takes the next attempt, or the loop is
\* exhausted and RuntimeError is raised
NextAttempt ==
    /\ pc = "for"
    /\ IF locals.attempt + 1 \in Attempts
       THEN /\ locals' = [locals EXCEPT !.attempt = @ + 1]
            /\ pc' = "join_token"
            /\ UNCHANGED returned
       ELSE /\ EndCall("RuntimeError")
            /\ UNCHANGED locals
    /\ UNCHANGED <<files, status_file, ssm, trace, ruleVars>>

\* join_cluster: the join token is read from SSM
GetJoinToken(value) ==
    /\ pc = "join_token"
    /\ trace' = Append(trace,
           Called("ssm_get", locals.attempt, "join-token", "", value))
    /\ locals' = [locals EXCEPT !.join_token = value]
    /\ IF value = ""
       THEN IF locals.attempt < JOIN_MAX_RETRIES
            THEN pc' = "for" /\ UNCHANGED returned
            ELSE EndCall("RuntimeError")
       ELSE pc' = "ca_hash" /\ UNCHANGED returned
    /\ UNCHANGED <<files, status_file, ssm, ruleVars>>

\* join_cluster: the CA hash is read from SSM
GetCaHash(value) ==
    /\ pc = "ca_hash"
    /\ trace' = Append(trace,
           Called("ssm_get", locals.attempt, "ca-hash", "", value))
    /\ locals' = [locals EXCEPT !.ca_hash = value]
    /\ IF value = ""
       THEN IF locals.attempt < JOIN_MAX_RETRIES
            THEN pc' = "for" /\ UNCHANGED returned
            ELSE EndCall("RuntimeError")
       ELSE pc' = "kubeadm join" /\ UNCHANGED returned
    /\ UNCHANGED <<files, status_file, ssm, ruleVars>>

\* join_cluster: kubeadm join (check=False, timeout=120)
KubeadmJoin(outcome) ==
    /\ pc = "kubeadm join"
    /\ trace' = Append(trace,
           Called("kubeadm join", locals.attempt, locals.join_token,
                  locals.ca_hash, outcome))
    /\ CASE outcome = "timeout" -> EndCall("TimeoutExpired")
         [] outcome = "0" -> EndCall("return")
         [] OTHER ->
             /\ pc' = IF locals.attempt < JOIN_MAX_RETRIES
                      THEN "kubeadm reset" ELSE "for"
             /\ UNCHANGED returned
    /\ UNCHANGED <<locals, files, status_file, ssm, ruleVars>>

\* join_cluster: kubeadm reset -f before the retry (check=False)
KubeadmReset(outcome) ==
    /\ pc = "kubeadm reset"
    /\ trace' = Append(trace,
           Called("kubeadm reset", locals.attempt, "", "", outcome))
    /\ IF outcome = "timeout"
       THEN EndCall("TimeoutExpired")
       ELSE pc' = "for" /\ UNCHANGED returned
    /\ UNCHANGED <<locals, files, status_file, ssm, ruleVars>>

InitJoin ==
    /\ NoRule
    /\ pc = "join_cluster"
    /\ locals = [attempt |-> 0, join_token |-> "", ca_hash |-> ""]
    /\ files = {}
    /\ status_file = <<>>
    /\ ssm = <<>>
    /\ trace = <<>>
    /\ returned = <<>>

NextJoin ==
    \/ \E returncode \in {"0", "1", "timeout"} : StartContainerd(returncode)
    \/ NextAttempt
    \/ \E value \in JoinTokens : GetJoinToken(value)
    \/ \E value \in CaHashes : GetCaHash(value)
    \/ \E outcome \in {"0", "1", "timeout"} : KubeadmJoin(outcome)
    \/ \E outcome \in {"0", "1", "timeout"} : KubeadmReset(outcome)

\* a call that has started goes on until it returns or raises
SpecJoin == InitJoin /\ [][NextJoin]_vars /\ WF_vars(NextJoin)

(***************************************************************************)
(* Step 02_init_kubeadm (SpecInitKubeadm): main() is run several times on  *)
(* one control-plane node.  Every command run with check=True may fail and *)
(* raise; kubeadm init, when it succeeds, has written ADMIN_CONF, the      *)
(* marker file of the step.  ensure_ecr_credential_provider is imported    *)
(* from common and is taken to return or to raise.                         *)
(***************************************************************************)

\* publish_ssm_params: the parameters written, in the order of the ssm_put
PublishedParams == <<"join-token", "ca-hash", "control-plane-endpoint",
                     "instance-id">>

\* the with statement of main ends: StepRunner.__exit__ sets the status and
\* the marker, and the exception, if any, goes on to the caller
EndMain(exc) ==
    LET exit == __exit__(locals, exc)
    IN  /\ locals' = [locals EXCEPT !.status = exit.status, !.exc = exc]
        /\ files' = IF exit.marks THEN mark_done(locals.skip_if) ELSE files
        /\ returned' = Append(returned,
               [status |-> exit.status, raised |-> exc /\ ~exit.suppress])
        /\ pc' = "idle"

\* main: StepRunner("init-kubeadm", skip_if=ADMIN_CONF) is entered
EnterMain ==
    /\ pc = "idle"
    /\ Len(returned) < MaxRuns
    /\ locals' = [step_name |-> "init-kubeadm", skip_if |-> ADMIN_CONF,
                  status |-> IF is_already_done(ADMIN_CONF)
                             THEN "skipped" ELSE "running",
                  exc |-> FALSE, param |-> 1]
    /\ pc' = IF is_already_done(ADMIN_CONF)
             THEN "handle_second_run" ELSE "init_cluster"
    /\ trace' = <<>>
    /\ UNCHANGED <<files, status_file, ssm, returned, ruleVars>>

\* handle_second_run: the kubeconfig is refreshed and the certificates are
\* renewed; nothing is written to SSM
handle_second_run(raises) ==
    /\ pc = "handle_second_run"
    /\ trace' = Append(trace, "handle_second_run")
    /\ EndMain(raises)
    /\ UNCHANGED <<status_file, ssm, ruleVars>>

\* init_cluster up to kubeadm init: containerd, the ECR credential provider,
\* the kubelet arguments and the instance metadata
PrepareInit(raises) ==
    /\ pc = "init_cluster"
    /\ trace' = Append(trace, "init_cluster")
    /\ IF raises
       THEN EndMain(TRUE)
       ELSE /\ pc' = "kubeadm init"
            /\ UNCHANGED <<locals, files, returned>>
    /\ UNCHANGED <<status_file, ssm, ruleVars>>

\* init_cluster: kubeadm init (check=True)
KubeadmInit(raises) ==
    /\ pc = "kubeadm init"
    /\ trace' = Append(trace, "kubeadm init")
    /\ IF raises
       THEN EndMain(TRUE)
       ELSE /\ files' = files \cup {ADMIN_CONF}
            /\ pc' = "kubeconfig"
            /\ UNCHANGED <<locals, returned>>
    /\ UNCHANGED <<status_file, ssm, ruleVars>>

\* init_cluster after kubeadm init: the kubeconfig of root and of ssm-user
\* (cp, chown, chmod with check=True) and the wait for the API server
SetUpKubeconfig(raises) ==
    /\ pc = "kubeconfig"
    /\ trace' = Append(trace, "kubeconfig")
    /\ IF raises
       THEN EndMain(TRUE)
       ELSE /\ pc' = "publish_ssm_params"
            /\ UNCHANGED <<locals, files, returned>>
    /\ UNCHANGED <<status_file, ssm, ruleVars>>

\* publish_ssm_params: kubeadm token create and the CA hash (check=True)
CreateJoinCredentials(raises) ==
    /\ pc = "publish_ssm_params"
    /\ trace' = Append(trace, "kubeadm token create")
    /\ IF raises
       THEN EndMain(TRUE)
       ELSE /\ pc' = "ssm_put"
            /\ UNCHANGED <<locals, files, returned>>
    /\ UNCHANGED <<status_file, ssm, ruleVars>>

\* publish_ssm_params: one ssm_put of the four, which writes the parameter
\* or raises
PutParameter(raises) ==
    /\ pc = "ssm_put"
    /\ trace' = Append(trace, "ssm_put")
    /\ IF raises
       THEN /\ EndMain(TRUE)
            /\ UNCHANGED ssm
       ELSE /\ ssm' = Append(ssm, <<PublishedParams[locals.param], "value">>)
            /\ locals' = [locals EXCEPT !.param = @ + 1]
            /\ pc' = IF locals.param = Len(PublishedParams)
                     THEN "elastic-ip" ELSE "ssm_put"
            /\ UNCHANGED <<files, returned>>
    /\ UNCHANGED <<status_file, ruleVars>>

\* publish_ssm_params, the end: the public IP is read again and published;
\* then init_cluster and the body of the with statement return
PublishElasticIp(raises) ==
    /\ pc = "elastic-ip"
    /\ trace' = Append(trace, "elastic-ip")
    /\ EndMain(raises)
    /\ UNCHANGED <<status_file, ssm, ruleVars>>

InitInitKubeadm ==
    /\ NoRule
    /\ pc = "idle"
    /\ locals = <<>>
    /\ files = {}
    /\ status_file = <<>>
    /\ ssm = <<>>
    /\ trace = <<>>
    /\ returned = <<>>

NextInitKubeadm ==
    \/ EnterMain
    \/ \E raises \in BOOLEAN : handle_second_run(raises)
    \/ \E raises \in BOOLEAN : PrepareInit(raises)
    \/ \E raises \in BOOLEAN : KubeadmInit(raises)
    \/ \E raises \in BOOLEAN : SetUpKubeconfig(raises)
    \/ \E raises \in BOOLEAN : CreateJoinCredentials(raises)
    \/ \E raises \in BOOLEAN : PutParameter(raises)
    \/ \E raises \in BOOLEAN : PublishElasticIp(raises)

SpecInitKubeadm == InitInitKubeadm /\ [][NextInitKubeadm]_vars

(***************************************************************************)
(* Resources without properties (SpecNoProperties): every rule on the      *)
(* resources of its types whose Properties key is absent, null or an empty *)
(* mapping.                                                                *)
(***************************************************************************)

\* the three ways a resource has no properties
PropertiesForms ==
    {<<>>, <<<<"Properties", VNull>>>>, <<<<"Properties", EmptyDict>>>>}

AbsentNullEmpty(type) ==
    {VDict(<<<<"Type", VStr(type)>>>> \o lc \o p) :
        lc \in Lifecycles, p \in PropertiesForms}

InitNoProperties ==
    /\ rule \in RuleIds
    /\ conf \in UNION {AbsentNullEmpty(t) : t \in supported_resources(rule)}
    /\ verdicts = <<>>
    /\ userdata = VNull
    /\ extracted = <<>>
    /\ NoBoot

SpecNoProperties == InitNoProperties /\ [][Next]_vars

(***************************************************************************)
(* Edited security groups (SpecIngressEdits): a security group is scanned, *)
(* then well-formed ingress rules are appended to it or its ingress rules  *)
(* are reordered, and it is scanned again after every edit.                *)
(***************************************************************************)

MaxList == 3

MaxEdits == 3

\* an ingress rule with integer ports and one source
WellFormedRule(from_port, to_port, source) ==
    VDict(<<<<"IpProtocol", VStr("tcp")>>, <<"FromPort", VInt(from_port)>>,
            <<"ToPort", VInt(to_port)>>>> \o source)

AnyIpv4 == <<<<"CidrIp", VStr("0.0.0.0/0")>>>>

\* the rules that are appended: SSH, a span of MAX_PORT_RANGE, Grafana and
\* the metrics ports from any address, and HTTPS from a security group
WellFormedRules ==
    { WellFormedRule(22, 22, AnyIpv4),
      WellFormedRule(8000, 9000, AnyIpv4),
      WellFormedRule(3000, 3000, AnyIpv4),
      WellFormedRule(9090, 9100, AnyIpv4),
      WellFormedRule(443, 443, <<<<"SourceSecurityGroupId", VStr("sg-2")>>>>) }

\* the ingress lists a group starts with: none, rules, an item that is not
\* a rule and a rule whose ports are no numbers
StartingLists ==
    { <<>>,
      <<VStr("x")>>,
      <<VDict(<<<<"IpProtocol", VStr("tcp")>>, <<"FromPort", VStr("ssh")>>,
                <<"ToPort", VStr("ssh")>>>> \o AnyIpv4)>>,
      <<WellFormedRule(22, 22, AnyIpv4)>>,
      <<WellFormedRule(443, 443, AnyIpv4), WellFormedRule(0, 65535, AnyIpv4)>> }

Description == <<<<"GroupDescription", VStr("monitoring")>>>>

\* security groups with a non-empty property map
EditedGroups ==
    {WithProperties("AWS::EC2::SecurityGroup", VDict(Description))}
    \cup {WithProperties("AWS::EC2::SecurityGroup",
              VDict(Description \o <<<<"SecurityGroupIngress", VList(rs)>>>>)) :
            rs \in StartingLists}

\* properties.get("SecurityGroupIngress", [])
IngressList(c) ==
    Get(Get0(c, "Properties"), "SecurityGroupIngress", EmptyList).l

\* the group c with the ingress list rs
WithIngressList(c, rs) ==
    VDict(DictSet(c.d, "Properties",
        VDict(DictSet(Get0(c, "Properties").d, "SecurityGroupIngress",
                      VList(rs)))))

\* the list q with the items at k and k + 1 exchanged
Exchanged(q, k) ==
    [n \in 1..Len(q) |->
        IF n = k THEN q[k + 1] ELSE IF n = k + 1 THEN q[k] ELSE q[n]]

\* the group as it is before any edit is scanned
ScanGroup ==
    /\ rule \in IngressRuleIds
    /\ verdicts = <<>>
    /\ verdicts' = <<scan_resource_conf(rule, conf)>>
    /\ UNCHANGED <<conf, rule, userdata, extracted, bootVars>>

\* the group after an edit is scanned
ScanEdited(rs) ==
    /\ rule \in IngressRuleIds
    /\ verdicts # <<>>
    /\ Len(verdicts) <= MaxEdits
    /\ conf' = WithIngressList(conf, rs)
    /\ verdicts' = Append(verdicts, scan_resource_conf(rule, conf'))
    /\ UNCHANGED <<rule, userdata, extracted, bootVars>>

\* a well-formed rule is appended to the ingress list
AppendIngress(r) ==
    /\ Len(IngressList(conf)) < MaxList
    /\ ScanEdited(Append(IngressList(conf), r))

\* two neighbouring ingress rules change places
ReorderIngress(k) ==
    /\ k < Len(IngressList(conf))
    /\ ScanEdited(Exchanged(IngressList(conf), k))

InitIngressEdits ==
    /\ rule \in IngressRuleIds
    /\ conf \in EditedGroups
    /\ verdicts = <<>>
    /\ userdata = VNull
    /\ extracted = <<>>
    /\ NoBoot

NextIngressEdits ==
    \/ ScanGroup
    \/ \E r \in WellFormedRules : AppendIngress(r)
    \/ \E k \in 1..MaxList : ReorderIngress(k)

SpecIngressEdits == InitIngressEdits /\ [][NextIngressEdits]_vars

(***************************************************************************)
(* Properties of the rule set on arbitrary resources (Spec).               *)
(***************************************************************************)
\* the verdict each rule documents for a resource that has no Properties
DocumentedDefault(id, c) ==
    CASE id \in SgRuleIds -> PASSED
      [] id \in {"CKV_CUSTOM_EBS_1", "CKV_CUSTOM_EBS_3"} -> FAILED
      [] id = "CKV_CUSTOM_EBS_2" -> PASSED
      [] id \in UserDataRuleIds -> PASSED
      [] id \in {"CKV_CUSTOM_VPC_1", "CKV_CUSTOM_SNS_1"} -> FAILED
      [] id = "CKV_CUSTOM_VPC_2" -> PASSED
      [] id = "CKV_CUSTOM_VPC_3" ->
            IF /\ Get0(c, "DeletionPolicy") = VStr("Retain")
               /\ Get0(c, "UpdateReplacePolicy") = VStr("Retain")
            THEN PASSED ELSE FAILED
      [] id = "CKV_CUSTOM_KMS_2" ->
            IF Get0(c, "DeletionPolicy") = VStr("Retain") THEN PASSED ELSE FAILED
      [] id \in {"CKV_CUSTOM_VPC_5", "CKV_CUSTOM_KMS_1", "CKV_CUSTOM_ASG_1"} -> PASSED
      [] id \in {"CKV_CUSTOM_VPC_6", "CKV_CUSTOM_LAMBDA_1", "CKV_CUSTOM_LAMBDA_2",
                 "CKV_CUSTOM_ASG_2"} -> FAILED
      [] id \in {"CKV_CUSTOM_IAM_1", "CKV_CUSTOM_IAM_5"} -> FAILED
      [] id \in {"CKV_CUSTOM_IAM_2", "CKV_CUSTOM_IAM_3", "CKV_CUSTOM_IAM_4"} -> PASSED
      [] id \in {"CKV_CUSTOM_SNS_2", "CKV_CUSTOM_SQS_1"} -> FAILED

\* C1: every one of the 30 rules, evaluated on a resource that has no
\* Properties section, returns PASSED or FAILED -- the default the rule
\* documents, never UNKNOWN, never an exception -- and returns the same
\* verdict on every evaluation.
C1_NoPropertiesDefault ==
    ~HasKey(conf, "Properties") =>
        \A i \in 1..Len(verdicts) :
            /\ verdicts[i] \in {PASSED, FAILED}
            /\ verdicts[i] = DocumentedDefault(rule, conf)
            /\ verdicts[i] = verdicts[1]

\* a volume without Properties, evaluated twice by the encryption rule
C1_VolumeWithoutPropertiesFails ==
    /\ rule = "CKV_CUSTOM_EBS_1"
    /\ ~HasKey(conf, "Properties")
    /\ Len(verdicts) >= 2
    /\ verdicts[1] = FAILED
    /\ verdicts[2] = FAILED

\* C2: for every rule and every property tree, malformed shapes included
\* (SecurityGroupIngress null, PolicyDocument a string, a Condition a
\* string, Tags null), an evaluation returns PASSED, FAILED or UNKNOWN and
\* never raises.
C2_NeverRaises ==
    \A i \in 1..Len(verdicts) : verdicts[i] \in {PASSED, FAILED, UNKNOWN}

\* the SSH rule evaluated on a security group whose SecurityGroupIngress is
\* null: the iteration over None raises
C2_NullIngressRaises ==
    /\ rule = "CKV_CUSTOM_SG_1"
    /\ conf = WithProperties("AWS::EC2::SecurityGroup",
                             Dict1("SecurityGroupIngress", VNull))
    /\ verdicts # <<>>
    /\ verdicts[1] = RAISED

\* the texts of the input families that int() accepts
IntegerTexts == {"22", "2", "50", "90", " 90 ", "9_0", "+90", "-1"}

\* int(v) succeeds
Coercible(v) == v.t \in {"int", "bool"} \/ (v.t = "str" /\ v.s \in IntegerTexts)

\* int() is applied to the field `k` of d, and fails
CoercionFails(d, k) == ~IsNone(Get0(d, k)) /\ ~Coercible(Get0(d, k))

\* the rules that read FromPort and ToPort
PortRuleIds ==
    {"CKV_CUSTOM_SG_1", "CKV_CUSTOM_SG_3", "CKV_CUSTOM_SG_4", "CKV_CUSTOM_SG_5"}

\* both ports of an ingress rule can be read
PortsParse(r) == ~CoercionFails(r, "FromPort") /\ ~CoercionFails(r, "ToPort")

\* a security group whose inline ingress rules are all mappings
IsSecurityGroup(c) ==
    /\ Get0(c, "Type") = VStr("AWS::EC2::SecurityGroup")
    /\ IsDict(Get0(c, "Properties"))
    /\ IsList(Get0(Get0(c, "Properties"), "SecurityGroupIngress"))
    /\ LET rules == Get0(Get0(c, "Properties"), "SecurityGroupIngress").l IN
       \A i \in 1..Len(rules) : IsDict(rules[i])

IngressOf(c) == Get0(Get0(c, "Properties"), "SecurityGroupIngress").l

\* the security group c without the ingress rules whose ports cannot be read
WithoutUnparsable(c) ==
    LET properties == Get0(c, "Properties")
        kept       == VList(SelectSeq(IngressOf(c), PortsParse))
    IN  VDict(DictSet(c.d, "Properties",
                      VDict(DictSet(properties.d, "SecurityGroupIngress", kept))))

\* a standalone ingress resource whose ports cannot be read
IsUnparsableIngress(c) ==
    /\ Get0(c, "Type") = VStr("AWS::EC2::SecurityGroupIngress")
    /\ IsDict(Get0(c, "Properties"))
    /\ ~PortsParse(Get0(c, "Properties"))

\* the rule has to coerce Size, RetentionInDays or MinSize, and cannot
NumericFieldFails ==
    LET properties == Get0(conf, "Properties") IN
    /\ IsDict(properties)
    /\ \/ /\ rule = "CKV_CUSTOM_EBS_2"
          /\ IsList(Get0(properties, "Tags"))
          /\ \E i \in 1..Len(Get0(properties, "Tags").l) :
                IsMonitoringTag(Get0(properties, "Tags").l[i])
          /\ ~Coercible(Get0(properties, "Size"))
       \/ /\ rule = "CKV_CUSTOM_VPC_2"
          /\ CoercionFails(properties, "RetentionInDays")
       \/ /\ rule = "CKV_CUSTOM_ASG_2"
          /\ CoercionFails(properties, "MinSize")

\* the rule has to coerce the ports of an inline ingress rule, and cannot
PortFails ==
    /\ rule \in PortRuleIds
    /\ IsSecurityGroup(conf)
    /\ \E i \in 1..Len(IngressOf(conf)) : ~PortsParse(IngressOf(conf)[i])

Field(v, k) == IF IsDict(v) THEN Get0(v, k) ELSE VNull

RECURSIVE HasStatementObject(_)
\* some document of the tree has a single statement object as its Statement
HasStatementObject(v) ==
    CASE v.t = "dict" ->
            \E i \in 1..Len(v.d) :
                \/ v.d[i][1] = "Statement" /\ IsDict(v.d[i][2])
                \/ HasStatementObject(v.d[i][2])
      [] v.t = "list" -> \E i \in 1..Len(v.l) : HasStatementObject(v.l[i])
      [] OTHER -> FALSE

RECURSIVE StatementsAsList(_)
\* the tree with every single statement object wrapped in a one-element list
StatementsAsList(v) ==
    CASE v.t = "dict" ->
            VDict([i \in 1..Len(v.d) |->
                     IF v.d[i][1] = "Statement" /\ IsDict(v.d[i][2])
                     THEN <<"Statement", VList(<<v.d[i][2]>>)>>
                     ELSE <<v.d[i][1], StatementsAsList(v.d[i][2])>>])
      [] v.t = "list" -> VList([i \in 1..Len(v.l) |-> StatementsAsList(v.l[i])])
      [] OTHER -> v

\* C4: for each rule that walks the statements of a policy document (IAM
\* hardcoded account id, KMS wildcard action, SNS and SQS deny insecure
\* transport), a document whose Statement is a single statement object gets
\* the verdict of the same document with the statement in a one-element
\* list.
C4_SingleStatementAsList ==
    HasStatementObject(conf) =>
        \A i \in 1..Len(verdicts) :
            verdicts[i] = scan_resource_conf(rule, StatementsAsList(conf))

\* the queue-policy rule fails a policy whose only statement, a single
\* object, denies insecure transport, and passes it once it is in a list
C4_QueuePolicyObjectFails ==
    /\ rule = "CKV_CUSTOM_SQS_1"
    /\ Field(Field(Field(conf, "Properties"), "PolicyDocument"), "Statement")
          = VDict(<<<<"Effect", VStr("Deny")>>,
                    <<"Condition", SecureTransport(VStr("false"))>>>>)
    /\ verdicts # <<>>
    /\ verdicts[1] = FAILED
    /\ scan_resource_conf(rule, StatementsAsList(conf)) = PASSED

\* the statement denies the requests that do not use TLS
DeniesInsecureTransport(st) ==
    /\ Field(st, "Effect") = VStr("Deny")
    /\ Field(Field(Field(st, "Condition"), "Bool"), "aws:SecureTransport")
          \in {VStr("false"), VBool(FALSE)}

\* the statements of the policy document of a queue or topic policy
StatementList(c) == Field(Field(Field(c, "Properties"), "PolicyDocument"), "Statement")

\* C5: for the queue-policy rule (CKV_CUSTOM_SQS_1) and the topic-policy
\* rule (CKV_CUSTOM_SNS_2) the verdict is PASSED iff some statement has
\* Effect Deny and its Condition.Bool maps aws:SecureTransport to the string
\* "false" or to the boolean false; otherwise it is FAILED.
C5_DenyInsecureTransport ==
    (rule \in {"CKV_CUSTOM_SQS_1", "CKV_CUSTOM_SNS_2"} /\ IsList(StatementList(conf))) =>
        \A i \in 1..Len(verdicts) :
            verdicts[i] =
                IF \E k \in 1..Len(StatementList(conf).l) :
                      DeniesInsecureTransport(StatementList(conf).l[k])
                THEN PASSED
                ELSE FAILED

\* the queue-policy rule fails a policy whose only statement denies
\* aws:SecureTransport = false written as a boolean
C5_QueuePolicyBooleanFails ==
    /\ rule = "CKV_CUSTOM_SQS_1"
    /\ StatementList(conf)
          = VList(<<VDict(<<<<"Effect", VStr("Deny")>>,
                            <<"Condition", SecureTransport(VBool(FALSE))>>>>)>>)
    /\ verdicts # <<>>
    /\ verdicts[1] = FAILED

(***************************************************************************)
(* Properties of the user-data rules (SpecUserData).                       *)
(***************************************************************************)
\* the lines of the script of an instance
LinesOf(c) ==
    LET items == Get0(Get0(Get0(Get0(c, "Properties"), "UserData"), "Fn::Base64"),
                      "Fn::Join").l[2].l
    IN  [i \in 1..Len(items) |-> items[i].s]

\* the number of lines of the script equal to `line`
Count(c, line) == Cardinality({i \in 1..Len(LinesOf(c)) : LinesOf(c)[i] = line})

\* the script publishes container ports
PublishesPorts(c) == Count(c, "docker compose up -d") > 0 /\ Count(c, "ports:") > 0

\* C6: for a script that publishes container ports, the loopback rule
\* (CKV_CUSTOM_COMPUTE_4) returns FAILED whenever at least one published
\* port lacks the loopback prefix and the unsafe bindings are at least as
\* many as the safe ones; one unsafe binding with one safe binding fails.
C6_UnsafeAtLeastSafeFails ==
    ( /\ rule = "CKV_CUSTOM_COMPUTE_4"
      /\ PublishesPorts(conf)
      /\ Count(conf, UNSAFE_LINE) >= 1
      /\ Count(conf, UNSAFE_LINE) >= Count(conf, SAFE_LINE) ) =>
        \A i \in 1..Len(verdicts) : verdicts[i] = FAILED

\* a script with one unsafe and one safe binding passes the loopback rule
C6_OneUnsafeOneSafePasses ==
    /\ rule = "CKV_CUSTOM_COMPUTE_4"
    /\ PublishesPorts(conf)
    /\ Count(conf, UNSAFE_LINE) = 1
    /\ Count(conf, SAFE_LINE) = 1
    /\ verdicts # <<>>
    /\ verdicts[1] = PASSED

\* the script calls the metadata service without a token, and acquires no
\* token on an earlier line
TokenlessCallBeforeToken(c) ==
    \E i \in 1..Len(LinesOf(c)) :
        /\ LinesOf(c)[i] = TOKENLESS_CALL
        /\ \A j \in 1..(i - 1) : LinesOf(c)[j] # TOKEN_LINE

\* C7: the IMDSv2 rule (CKV_CUSTOM_COMPUTE_2) returns FAILED for every
\* script with a tokenless metadata call that no token acquisition
\* precedes, and PASSED only when there is no such call: the order of the
\* token acquisition and the call decides.
C7_TokenOrderDecides ==
    rule = "CKV_CUSTOM_COMPUTE_2" =>
        \A i \in 1..Len(verdicts) :
            /\ TokenlessCallBeforeToken(conf) => verdicts[i] = FAILED
            /\ verdicts[i] = PASSED => ~TokenlessCallBeforeToken(conf)

\* a script that calls the metadata service without a token and acquires a
\* token on the next line passes the IMDSv2 rule
C7_TokenAfterCallPasses ==
    /\ rule = "CKV_CUSTOM_COMPUTE_2"
    /\ LinesOf(conf) = <<TOKENLESS_CALL, TOKEN_LINE>>
    /\ verdicts # <<>>
    /\ verdicts[1] = PASSED

\* the lines holding a credential-shaped assignment whose matched text
\* matches no exclusion pattern
HardcodedLines == {HARDCODED, API_KEY_LINE}

\* C8: the credential rule (CKV_CUSTOM_COMPUTE_1) returns FAILED iff the
\* script holds a credential-shaped assignment whose own matched text
\* matches no exclusion pattern.  An exclusion pattern elsewhere in the
\* script suppresses nothing: PASSWORD=hunter2 fails next to a secret-store
\* reference, and PASSWORD=$SECRET_ENV alone passes.
C8_ExclusionsOnlyInsideMatch ==
    rule = "CKV_CUSTOM_COMPUTE_1" =>
        \A i \in 1..Len(verdicts) :
            /\ verdicts[i] \in {PASSED, FAILED}
            /\ verdicts[i] = FAILED <=>
                  \E k \in 1..Len(LinesOf(conf)) : LinesOf(conf)[k] \in HardcodedLines
            /\ verdicts[i] = FAILED <=>
                  \E p \in 1..Len(CREDENTIAL_KEYS) :
                      LET matches == FindAllCredentials(_get_userdata_script(conf).s,
                                                        1, CREDENTIAL_KEYS[p])
                      IN  \E k \in 1..Len(matches) : ~FALSE_POSITIVE_PATTERNS(matches[k])
            /\ LinesOf(conf) = <<FROM_ENV>> => verdicts[i] = PASSED

\* PASSWORD=hunter2 fails although the next line names the secret store
C8_HardcodedNextToSecretStore ==
    /\ rule = "CKV_CUSTOM_COMPUTE_1"
    /\ LinesOf(conf) = <<HARDCODED, SECRET_STORE>>
    /\ verdicts # <<>>
    /\ verdicts[1] = FAILED

(***************************************************************************)
(* Properties of the intrinsic resolver (SpecResolve).                     *)
(***************************************************************************)
RECURSIVE Flatten(_)
\* the concatenation of a sequence of sequences
Flatten(ss) == IF Len(ss) = 0 THEN <<>> ELSE Head(ss) \o Flatten(Tail(ss))

\* resolve(A) ++ resolve(B) ++ ... for the items A, B, ...
ResolveEach(items) ==
    Flatten([i \in 1..Len(items) |-> _extract_userdata_strings(items[i])])

\* a mapping whose only key is Fn::Base64 or Fn::Sub
IsWrapper(u) == IsDict(u) /\ Len(u.d) = 1 /\ u.d[1][1] \in {"Fn::Base64", "Fn::Sub"}

\* a mapping whose only key is Fn::Join, with a [separator, items] argument
IsJoin(u) ==
    /\ IsDict(u)
    /\ Len(u.d) = 1
    /\ u.d[1][1] = "Fn::Join"
    /\ IsList(u.d[1][2])
    /\ Len(u.d[1][2].l) = 2

\* C9: resolution is structural and keeps the order: a list [A, B, ...]
\* resolves to resolve(A) ++ resolve(B) ++ ... in list order, a literal
\* string to the singleton holding it, and an Fn::Base64 or Fn::Sub wrapper
\* to exactly the resolution of its argument.
C9_ResolutionStructural ==
    \A i \in 1..Len(extracted) :
        /\ IsList(userdata) => extracted[i] = ResolveEach(userdata.l)
        /\ IsStr(userdata) => extracted[i] = <<userdata.s>>
        /\ IsWrapper(userdata) =>
              extracted[i] = _extract_userdata_strings(userdata.d[1][2])

\* a list of a literal and a nested list, resolved in order
C9_NestedListResolved ==
    /\ userdata = VList(<<VStr("b"), VList(<<VStr("a"), VStr("b")>>)>>)
    /\ extracted # <<>>
    /\ extracted[1] = <<"b", "a", "b">>

\* the items of a join node, as a list
JoinItems(u) ==
    LET items == u.d[1][2].l[2] IN IF IsList(items) THEN items.l ELSE <<items>>

\* the strings of a sequence
Strings(q) == {q[i] : i \in 1..Len(q)}

\* C10: a join node [separator, items] resolves to exactly the in-order
\* concatenation of the resolutions of the items, and the separator --
\* literal or nested node -- is never extracted; items that are a single
\* node are resolved as a one-element list.
C10_JoinSkipsSeparator ==
    IsJoin(userdata) =>
        \A i \in 1..Len(extracted) :
            /\ extracted[i] = ResolveEach(JoinItems(userdata))
            /\ \A sep \in Strings(_extract_userdata_strings(userdata.d[1][2].l[1])) :
                  sep \notin Strings(ResolveEach(JoinItems(userdata))) =>
                      sep \notin Strings(extracted[i])

\* a join with a literal separator and two items, one of them a join
C10_JoinResolved ==
    /\ userdata = Join(VStr("sep"),
                       VList(<<VStr("a"),
                               Join(VStr("sep"), VList(<<VStr("b"), VStr("a")>>))>>))
    /\ extracted # <<>>
    /\ extracted[1] = <<"a", "b", "a">>

(***************************************************************************)
(* Properties of the resolver on any tree (SpecResolveAny).                *)
(***************************************************************************)
\* C11: resolution is idempotent: resolving the sequence resolve(n), taken
\* as a list node, returns resolve(n) unchanged.
C11_ResolutionIdempotent ==
    \A i \in 2..Len(extracted) :
        userdata = AsListNode(extracted[i - 1]) => extracted[i] = extracted[i - 1]

\* the resolution of a nested list, resolved again as a flat list
C11_ResolvedAgain ==
    /\ userdata = VList(<<VStr("b"), VStr("a"), VStr("b")>>)
    /\ Len(extracted) = 2
    /\ extracted[1] = <<"b", "a", "b">>
    /\ extracted[2] = <<"b", "a", "b">>

\* the nodes directly under a node: the items of a list, the values of a
\* mapping
Children(u) ==
    CASE u.t = "list" -> {u.l[i] : i \in 1..Len(u.l)}
      [] u.t = "dict" -> {u.d[i][2] : i \in 1..Len(u.d)}
      [] OTHER        -> {}

RECURSIVE Descendants(_)
\* the strict sub-nodes of a node
Descendants(u) ==
    Children(u) \cup UNION {Descendants(c) : c \in Children(u)}

\* a shape the resolver has no branch for: a number, a boolean, null, an
\* empty container, a join whose argument is not a two-element list
IsUnrecognized(u) ==
    \/ u.t \in {"null", "bool", "int"}
    \/ IsList(u) /\ u.l = <<>>
    \/ IsDict(u) /\ u.d = <<>>
    \/ /\ IsDict(u)
       /\ Len(u.d) = 1
       /\ u.d[1][1] = "Fn::Join"
       /\ ~(IsList(u.d[1][2]) /\ Len(u.d[1][2].l) = 2)

\* the nodes one call of the resolver on the value of a key calls itself on
CallsOnValue(key, value) ==
    IF key = "Fn::Join"
    THEN IF IsList(value) /\ Len(value.l) = 2
         THEN IF IsList(value.l[2]) THEN value.l[2].l ELSE <<value.l[2]>>
         ELSE <<>>
    ELSE <<value>>

\* the nodes one call of the resolver on u calls itself on, in call order
Calls(u) ==
    CASE u.t = "list" -> u.l
      [] u.t = "dict" -> Flatten([i \in 1..Len(u.d) |-> CallsOnValue(u.d[i][1], u.d[i][2])])
      [] OTHER        -> <<>>

\* C12: resolution is total and terminates: on every node of the tree the
\* result is the concatenation of the results of the recursive calls, each
\* recursive call is on a strict sub-node, and a shape the resolver does
\* not recognize (a number, a boolean, null, an empty container, a join
\* whose argument is not a two-element list) contributes the empty
\* sequence.
C12_ResolutionTotal ==
    \A i \in 1..Len(extracted) :
        /\ extracted[i] = _extract_userdata_strings(userdata)
        /\ \A u \in {userdata} \cup Descendants(userdata) :
              /\ \A k \in 1..Len(Calls(u)) : Calls(u)[k] \in Descendants(u)
              /\ ~IsStr(u) => _extract_userdata_strings(u) = ResolveEach(Calls(u))
              /\ IsUnrecognized(u) => _extract_userdata_strings(u) = <<>>

\* a list with a malformed join between two literals resolves to the two
\* literals
C12_MalformedJoinSkipped ==
    /\ userdata = VList(<<VStr("a"),
                          Dict1("Fn::Join", VList(<<VStr("a"), VStr("b"), VStr("a")>>)),
                          VStr("b")>>)
    /\ extracted # <<>>
    /\ extracted[1] = <<"a", "b">>

(***************************************************************************)
(* Properties of the port parser (SpecPorts).                              *)
(***************************************************************************)
\* the integer a port value stands for
PortNumber(v) ==
    CASE v.t = "int"       -> v.i
      [] v.t = "bool"      -> IF v.b THEN 1 ELSE 0
      [] v = VStr("22")    -> 22
      [] v = VStr(" 90 ")  -> 90

\* what _parse_ports returns for a field that is read: None when it is
\* absent or null, its integer otherwise
PortOrNone(v) == IF IsNone(v) THEN None ELSE Some(PortNumber(v))

\* what the parser does instead: (None, None) when a field that is present
\* fails the integer cast; otherwise, field by field, None for a field that
\* is absent or null and the integer for a field that casts, so that
\* "22"/"22" gives (22, 22), from "x" gives (None, None) and a rule with
\* ToPort 22 alone gives (None, 22)
ParsePortsFieldByField ==
    \A i \in 1..Len(verdicts) :
        IF CoercionFails(conf, "FromPort") \/ CoercionFails(conf, "ToPort")
        THEN verdicts[i] = <<None, None>>
        ELSE verdicts[i] = << PortOrNone(Get0(conf, "FromPort")),
                              PortOrNone(Get0(conf, "ToPort")) >>

\* a rule with ToPort alone keeps the port it could read
C13_OnePortAbsent ==
    /\ conf = VDict(<<<<"IpProtocol", VStr("tcp")>>, <<"ToPort", VInt(22)>>>>)
    /\ verdicts # <<>>
    /\ verdicts[1] = <<None, Some(22)>>

\* C13 (as stated): _parse_ports returns (None, None) whenever a port field
\* is absent or fails the integer cast, and the two integers when both
\* fields are present and cast.
C13_ParsePortsAllOrNothing ==
    \A i \in 1..Len(verdicts) :
        LET f == Get0(conf, "FromPort")
            t == Get0(conf, "ToPort")
        IN  IF Coercible(f) /\ Coercible(t)
            THEN verdicts[i] = <<Some(PortNumber(f)), Some(PortNumber(t))>>
            ELSE verdicts[i] = <<None, None>>

(***************************************************************************)
(* Properties of the ingress rules of security groups (SpecIngress).       *)
(***************************************************************************)
\* the inline ingress rules of a security group, none for another resource
InlineRules(c) ==
    IF /\ Get0(c, "Type") = VStr("AWS::EC2::SecurityGroup")
       /\ IsDict(Get0(c, "Properties"))
       /\ IsList(Get0(Get0(c, "Properties"), "SecurityGroupIngress"))
    THEN Get0(Get0(c, "Properties"), "SecurityGroupIngress").l
    ELSE <<>>

\* the security group c with `rules` as its inline ingress rules
WithIngress(c, rules) ==
    VDict(DictSet(c.d, "Properties",
                  VDict(DictSet(Get0(c, "Properties").d, "SecurityGroupIngress",
                                VList(rules)))))

\* both bounds of the rule parse
HasBounds(r) ==
    IsDict(r) /\ Coercible(Get0(r, "FromPort")) /\ Coercible(Get0(r, "ToPort"))

FromOf(r) == PortNumber(Get0(r, "FromPort"))

ToOf(r) == PortNumber(Get0(r, "ToPort"))

\* port_in_range: both bounds parse and from <= port <= to
Covers(r, port) == HasBounds(r) /\ FromOf(r) <= port /\ port <= ToOf(r)

\* the rule names a security group as its source
GroupSourced(r) ==
    /\ IsDict(r)
    /\ \/ Truthy(Get0(r, "SourceSecurityGroupId"))
       \/ Truthy(Get0(r, "SourceSecurityGroupName"))

\* is_external_source: an IPv4 or IPv6 CIDR and no security-group source
IsExternal(r) ==
    /\ IsDict(r)
    /\ Truthy(Get0(r, "CidrIp")) \/ Truthy(Get0(r, "CidrIpv6"))
    /\ ~GroupSourced(r)

NotGroupSourced(r) == ~GroupSourced(r)

\* the ports a rule keeps internal
InternalPorts(id) ==
    IF id = "CKV_CUSTOM_SG_4" THEN {9090, 9100} ELSE {3000}

\* C14: CKV_CUSTOM_SG_4 (9090, 9100) and CKV_CUSTOM_SG_5 (3000) return
\* FAILED iff some ingress rule is external -- an IPv4 or IPv6 CIDR and no
\* security-group source -- and its parsed port range contains one of the
\* ports of the check, PASSED otherwise; a rule that names a security-group
\* source, even together with a CIDR, never causes FAILED: the verdict is
\* the one of the group without such rules.
C14_ExternalInternalPorts ==
    rule \in {"CKV_CUSTOM_SG_4", "CKV_CUSTOM_SG_5"} =>
        \A i \in 1..Len(verdicts) :
            /\ verdicts[i] =
                  IF \E k \in 1..Len(InlineRules(conf)) :
                        /\ IsExternal(InlineRules(conf)[k])
                        /\ \E port \in InternalPorts(rule) :
                              Covers(InlineRules(conf)[k], port)
                  THEN FAILED
                  ELSE PASSED
            /\ verdicts[i] =
                  scan_resource_conf(rule,
                      WithIngress(conf, SelectSeq(InlineRules(conf), NotGroupSourced)))

\* a rule that opens the metrics ports to an IPv6 CIDR and names a security
\* group as well passes the metrics check
C14_CidrWithGroupPasses ==
    /\ rule = "CKV_CUSTOM_SG_4"
    /\ InlineRules(conf) =
          <<VDict(<<<<"IpProtocol", VStr("tcp")>>,
                    <<"FromPort", VInt(9000)>>, <<"ToPort", VInt(9200)>>,
                    <<"CidrIpv6", VStr("::/0")>>,
                    <<"SourceSecurityGroupName", VStr("web")>>>>)>>
    /\ verdicts # <<>>
    /\ verdicts[1] = PASSED

\* the only ingress rule of the group is {from: 20, to: 23}
OnlyTwentyToTwentyThree(c) ==
    /\ Len(InlineRules(c)) = 1
    /\ IsDict(InlineRules(c)[1])
    /\ Get0(InlineRules(c)[1], "FromPort") = VInt(20)
    /\ Get0(InlineRules(c)[1], "ToPort") = VInt(23)

\* C15: CKV_CUSTOM_SG_1 returns FAILED iff some ingress rule has both
\* bounds parsed and from <= 22 <= to, whatever the source of the rule and
\* whatever the other rules of the list, PASSED otherwise; a group whose
\* only ingress is {from: 20, to: 23} fails the SSH check and passes the
\* port-span check CKV_CUSTOM_SG_3.
C15_SshIngress ==
    \A i \in 1..Len(verdicts) :
        /\ rule = "CKV_CUSTOM_SG_1" =>
              verdicts[i] =
                  IF \E k \in 1..Len(InlineRules(conf)) : Covers(InlineRules(conf)[k], 22)
                  THEN FAILED
                  ELSE PASSED
        /\ (rule = "CKV_CUSTOM_SG_1" /\ OnlyTwentyToTwentyThree(conf)) =>
              verdicts[i] = FAILED
        /\ (rule = "CKV_CUSTOM_SG_3" /\ OnlyTwentyToTwentyThree(conf)) =>
              verdicts[i] = PASSED

\* a group whose only ingress is {from: 20, to: 23} from another security
\* group fails the SSH check
C15_TwentyToTwentyThreeFails ==
    /\ rule = "CKV_CUSTOM_SG_1"
    /\ OnlyTwentyToTwentyThree(conf)
    /\ GroupSourced(InlineRules(conf)[1])
    /\ verdicts # <<>>
    /\ verdicts[1] = FAILED

\* range_span_exceeds: both bounds parse and (to - from) >= 1000
SpanExceeds(r) == HasBounds(r) /\ (ToOf(r) - FromOf(r)) >= 1000

\* the ingress rules a resource carries: the inline rules of a security
\* group, or the standalone ingress resource itself
RulesOf(c) ==
    IF Get0(c, "Type") = VStr("AWS::EC2::SecurityGroupIngress")
    THEN <<Get0(c, "Properties")>>
    ELSE InlineRules(c)

\* the resource carries one rule, with the bounds (from, to)
OnlyBounds(c, from, to) ==
    /\ Len(RulesOf(c)) = 1
    /\ IsDict(RulesOf(c)[1])
    /\ Get0(RulesOf(c)[1], "FromPort") = VInt(from)
    /\ Get0(RulesOf(c)[1], "ToPort") = VInt(to)

\* C16: CKV_CUSTOM_SG_3 returns FAILED iff some ingress rule -- inline on a
\* security group, or the standalone ingress resource itself -- has both
\* bounds parsed and (to - from) >= 1000, PASSED otherwise: bounds
\* (0, 1000) fail, bounds (0, 999) pass, and a rule with to < from never
\* fails.
C16_PortSpan ==
    rule = "CKV_CUSTOM_SG_3" =>
        \A i \in 1..Len(verdicts) :
            /\ verdicts[i] =
                  IF \E k \in 1..Len(RulesOf(conf)) : SpanExceeds(RulesOf(conf)[k])
                  THEN FAILED
                  ELSE PASSED
            /\ OnlyBounds(conf, 0, 1000) => verdicts[i] = FAILED
            /\ OnlyBounds(conf, 0, 999) => verdicts[i] = PASSED
            /\ (\A k \in 1..Len(RulesOf(conf)) :
                    HasBounds(RulesOf(conf)[k]) =>
                        ToOf(RulesOf(conf)[k]) < FromOf(RulesOf(conf)[k])) =>
                  verdicts[i] = PASSED

\* a standalone ingress resource with the bounds (0, 1000) fails the
\* port-span check
C16_SpanOfThousandFails ==
    /\ rule = "CKV_CUSTOM_SG_3"
    /\ Get0(conf, "Type") = VStr("AWS::EC2::SecurityGroupIngress")
    /\ OnlyBounds(conf, 0, 1000)
    /\ verdicts # <<>>
    /\ verdicts[1] = FAILED

(***************************************************************************)
(* Properties of the volume checks (SpecVolume).                           *)
(***************************************************************************)
\* the resource carries no properties: the key is absent, null or empty
MissingProperties(c) == Get0(c, "Properties") \in {VNull, EmptyDict}

\* a non-empty key reference: a non-empty string or a non-empty intrinsic
HasKeyReference(p) ==
    LET key == Get0(p, "KmsKeyId") IN
    \/ IsStr(key) /\ key.s # ""
    \/ IsDict(key) /\ key # EmptyDict

\* C17: CKV_CUSTOM_EBS_1 returns PASSED exactly when Encrypted is truthy
\* and KmsKeyId holds a non-empty key reference, and FAILED in every other
\* case: an unencrypted volume whatever its other fields, an encrypted one
\* without a key id, a volume without properties.  The security-group
\* checks return PASSED for a resource without properties.
C17_VolumeEncryption ==
    \A i \in 1..Len(verdicts) :
        /\ rule = "CKV_CUSTOM_EBS_1" =>
              LET p == Get0(conf, "Properties") IN
              /\ verdicts[i] \in {PASSED, FAILED}
              /\ verdicts[i] = PASSED <=>
                    /\ ~MissingProperties(conf)
                    /\ Truthy(Get0(p, "Encrypted"))
                    /\ HasKeyReference(p)
        /\ rule \in SgRuleIds /\ MissingProperties(conf) => verdicts[i] = PASSED

\* an unencrypted volume that names a key has been evaluated and failed
C17_UnencryptedWithKeyFails ==
    /\ rule = "CKV_CUSTOM_EBS_1"
    /\ Get0(conf, "Properties") =
          VDict(<<<<"Encrypted", VBool(FALSE)>>,
                  <<"KmsKeyId", VStr("arn:aws:kms:eu-west-1:111122223333:key/abc")>>>>)
    /\ verdicts = <<FAILED>>

\* the volume carries tags that mark it as a monitoring volume
TaggedMonitoring(p) == Get0(p, "Tags") \in MonitoringTagLists

\* the integer a Size coerces to, None when it has none
SizeInGb(v) ==
    IF v.t = "int" THEN Some(v.i)
    ELSE IF v = VBool(TRUE) THEN Some(1)
    ELSE IF v \in {VStr("50"), VStr(" 50 "), VStr("5_0"), VStr("+50")} THEN Some(50)
    ELSE IF v = VStr("49") THEN Some(49)
    ELSE None

TrustStatements(p) ==
    LET statement == Get0(Get(p, "AssumeRolePolicyDocument", EmptyDict), "Statement") IN
    IF IsList(statement) THEN statement.l
    ELSE IF IsDict(statement) THEN <<statement>>
    ELSE <<>>

\* the services a principal names, as a single string or as a list of strings
ServicesNamed(principal) ==
    LET service == IF IsDict(principal) THEN Get0(principal, "Service") ELSE VNull IN
    IF IsStr(service) THEN {service.s}
    ELSE IF IsList(service)
         THEN {service.l[i].s : i \in {j \in 1..Len(service.l) : IsStr(service.l[j])}}
         ELSE {}

\* some statement of the trust policy names the service principal of a
\* service-linked role
NamesLinkedService(p) ==
    \E i \in 1..Len(TrustStatements(p)) :
        ServicesNamed(Get0(TrustStatements(p)[i], "Principal")) \cap LinkedServices # {}

\* some statement of a Statement list gives Principal.Service as one string
\* that is the service principal of a service-linked role
NamesLinkedServiceString(p) ==
    LET statement == Get0(Get(p, "AssumeRolePolicyDocument", EmptyDict), "Statement") IN
    /\ IsList(statement)
    /\ \E i \in 1..Len(statement.l) :
          LET principal == Get0(statement.l[i], "Principal") IN
          /\ IsDict(principal)
          /\ IsStr(Get0(principal, "Service"))
          /\ Get0(principal, "Service").s \in LinkedServices

BoundarySet(p) == Truthy(Get0(p, "PermissionsBoundary"))

\* C19: CKV_CUSTOM_IAM_1 returns PASSED when PermissionsBoundary is set;
\* without it, PASSED exactly when a statement of the trust policy names
\* the service principal of a service-linked role, Principal.Service being
\* one string or a list of strings, and FAILED otherwise, a role without
\* properties included.
C19_PermissionsBoundary ==
    \A i \in 1..Len(verdicts) :
        rule = "CKV_CUSTOM_IAM_1" =>
            LET p == Get0(conf, "Properties") IN
            verdicts[i] =
               IF MissingProperties(conf) THEN FAILED
               ELSE IF BoundarySet(p) \/ NamesLinkedService(p) THEN PASSED
               ELSE FAILED

\* what the rule does instead: without a boundary only a Principal.Service
\* given as one string, in a statement of a Statement list, is recognized
BoundaryOrLinkedServiceString ==
    \A i \in 1..Len(verdicts) :
        rule = "CKV_CUSTOM_IAM_1" =>
            LET p == Get0(conf, "Properties") IN
            verdicts[i] =
               IF MissingProperties(conf) THEN FAILED
               ELSE IF BoundarySet(p) \/ NamesLinkedServiceString(p) THEN PASSED
               ELSE FAILED

\* a role without a boundary whose trust policy names the auto-scaling
\* service in a list has been evaluated and failed
C19_ServiceListFails ==
    /\ rule = "CKV_CUSTOM_IAM_1"
    /\ Get0(conf, "Properties") =
          Dict1("AssumeRolePolicyDocument",
                VDict(<<<<"Version", VStr("2012-10-17")>>,
                        <<"Statement",
                          VList(<<TrustStatement(
                                     Dict1("Service",
                                           VList(<<VStr("autoscaling.amazonaws.com")>>)))>>)>>>>))
    /\ verdicts = <<FAILED>>

\* the entries of ManagedPolicyArns, a single value taken as a list of one
ManagedPolicies(p) ==
    LET given == Get(p, "ManagedPolicyArns", EmptyList) IN
    IF IsList(given) THEN given.l ELSE <<given>>

\* how many entries are AWS managed policies of the aws partition
AwsManaged(p) ==
    Cardinality({i \in 1..Len(ManagedPolicies(p)) :
        ManagedPolicies(p)[i] = VStr("arn:aws:iam::aws:policy/ReadOnlyAccess")})

\* C20: CKV_CUSTOM_IAM_4 counts only the ARNs that start with
\* arn:aws:iam::aws:policy/, customer managed and intrinsic entries never
\* count; a role passes with exactly the cap of them and fails with one
\* more, and the cap is the one the name of the rule and the module
\* documentation state.
C20_ManagedPolicyCap ==
    \A i \in 1..Len(verdicts) :
        (rule = "CKV_CUSTOM_IAM_4" /\ ~MissingProperties(conf)) =>
            LET p == Get0(conf, "Properties") IN
            /\ verdicts[i] \in {PASSED, FAILED}
            /\ verdicts[i] = PASSED <=> AwsManaged(p) <= NAMED_MANAGED_POLICIES
            /\ verdicts[i] = PASSED <=> AwsManaged(p) <= DOCUMENTED_MANAGED_POLICIES

\* what the rule does instead: the cap is the one of its name, 3, which
\* the module documentation does not state
ManagedPolicyCapOfName ==
    \A i \in 1..Len(verdicts) :
        (rule = "CKV_CUSTOM_IAM_4" /\ ~MissingProperties(conf)) =>
            LET p == Get0(conf, "Properties") IN
            verdicts[i] = IF AwsManaged(p) <= NAMED_MANAGED_POLICIES THEN PASSED
                          ELSE FAILED

\* a role with one AWS managed policy more than the module documentation
\* allows, next to a customer managed one, has been evaluated and passed
C20_ThreeManagedPass ==
    /\ rule = "CKV_CUSTOM_IAM_4"
    /\ Get0(conf, "Properties") =
          Dict1("ManagedPolicyArns",
                VList(<<VStr("arn:aws:iam::aws:policy/ReadOnlyAccess"),
                        VStr("arn:aws:iam::111122223333:policy/app"),
                        VStr("arn:aws:iam::aws:policy/ReadOnlyAccess"),
                        VStr("arn:aws:iam::aws:policy/ReadOnlyAccess")>>))
    /\ verdicts = <<PASSED>>

(***************************************************************************)
(* Properties of the account-id check (SpecAccount).                       *)
(***************************************************************************)
\* the policy documents of a resource: those of its inline policies and
\* its own
PolicyDocumentsOf(p) ==
    LET policies == Get(p, "Policies", EmptyList).l
        inline   == {Get0(policies[i], "PolicyDocument") :
                        i \in {j \in 1..Len(policies) : IsDict(policies[j])}}
    IN  inline \cup (IF HasKey(p, "PolicyDocument") THEN {Get0(p, "PolicyDocument")} ELSE {})

\* the Resource entries of a statement, a single value taken as a list of one
ResourceEntries(stmt) ==
    LET resource == IF IsDict(stmt) THEN Get(stmt, "Resource", EmptyList) ELSE EmptyList IN
    IF IsList(resource) THEN {resource.l[i] : i \in 1..Len(resource.l)} ELSE {resource}

\* some statement of some policy document of the resource has a Resource
\* entry with an account id between colons
HasHardcodedEntry(p) ==
    \E doc \in PolicyDocumentsOf(p) :
        \E i \in 1..Len(Get0(doc, "Statement").l) :
            ResourceEntries(Get0(doc, "Statement").l[i]) \cap HardcodedEntries # {}

RetentionInDays(v) ==
    IF v.t = "int" THEN Some(v.i)
    ELSE IF v = VBool(TRUE) THEN Some(1)
    ELSE IF v \in {VStr("90"), VStr(" 90 "), VStr("9_0"), VStr("+90")} THEN Some(90)
    ELSE IF v = VStr("89") THEN Some(89)
    ELSE None

PolicyOrDelete(c, k) == IF HasKey(c, k) THEN Get0(c, k) ELSE VStr("Delete")

\* C23: CKV_CUSTOM_VPC_3 returns PASSED exactly when DeletionPolicy and
\* UpdateReplacePolicy are both Retain, an absent policy counting as
\* Delete, and FAILED in every other combination, whatever the Properties
\* of the resource.
C23_LifecycleRetain ==
    \A i \in 1..Len(verdicts) :
        rule = "CKV_CUSTOM_VPC_3" =>
            verdicts[i] =
               IF /\ PolicyOrDelete(conf, "DeletionPolicy") = VStr("Retain")
                  /\ PolicyOrDelete(conf, "UpdateReplacePolicy") = VStr("Retain")
               THEN PASSED
               ELSE FAILED

\* a log group that is retained on deletion but not on replacement, and
\* has no properties, has been evaluated and failed
C23_RetainOnDeletionOnlyFails ==
    /\ rule = "CKV_CUSTOM_VPC_3"
    /\ conf = VDict(<<<<"Type", VStr("AWS::Logs::LogGroup")>>,
                      <<"DeletionPolicy", VStr("Retain")>>>>)
    /\ verdicts = <<FAILED>>

(***************************************************************************)
(* Properties of a scan (SpecScan).                                        *)
(***************************************************************************)
\* every evaluation of a pair gave the verdict its other evaluations gave,
\* which is the verdict of the check on the resource of the stack
SameVerdictPerPair ==
    \A a \in 1..Len(verdicts) :
        /\ verdicts[a][3] = scan_resource_conf(verdicts[a][1], conf.l[verdicts[a][2]])
        /\ \A b \in 1..Len(verdicts) :
              (verdicts[a][1] = verdicts[b][1] /\ verdicts[a][2] = verdicts[b][2])
                 => verdicts[a][3] = verdicts[b][3]

IsPrefixOf(s, t) ==
    /\ Len(s) <= Len(t)
    /\ \A n \in 1..Len(s) : s[n] = t[n]

\* the status file lists exactly the executed steps, in order, none running
StatusFileListsExecuted ==
    /\ Len(status_file) = Len(trace)
    /\ \A n \in 1..Len(trace) :
           /\ status_file[n][1] = trace[n]
           /\ status_file[n][2] \in {"success", "failed"}

\* no step was executed after a step that failed
NothingAfterFailure ==
    \A n \in 1..(Len(status_file) - 1) : status_file[n][2] = "success"

\* every step of the list ran and succeeded
AllRanAndSucceeded ==
    /\ trace = locals.step_names
    /\ \A n \in 1..Len(status_file) : status_file[n][2] = "success"

ExecutedInOrder ==
    /\ IsPrefixOf(trace, locals.step_names)
    /\ NothingAfterFailure
    /\ StatusFileListsExecuted

\* the outcome of the publish changes nothing but the SSM parameter
PublishNeverMatters ==
    pc = "publish" =>
        /\ pc' = IF status_file[Len(status_file)][2] = "failed"
                 THEN "end" ELSE "loop"
        /\ UNCHANGED <<locals, status_file, trace, returned>>

MarkerOnEntry == \E n \in 1..Len(trace) : trace[n] = <<"is_already_done", TRUE>>

\* __exit__ created the marker file
MarkedOnExit == \E n \in 1..Len(trace) : trace[n] = <<"mark_done", TRUE>>

\* the body raised an exception
BodyRaised == \E n \in 1..Len(trace) : trace[n] = <<"body", TRUE>>

\* the invocation that has just ended
LastRun == returned[Len(returned)]

\* C26: for a StepRunner with a marker file, if the marker exists on entry
\* the status is skipped from entry on and after the exit; otherwise the
\* final status is success iff the body raised nothing, the exit creates the
\* marker iff the body raised nothing, and when the body raised the status is
\* failed, the exit creates no marker and the exception reaches the caller.
C26_StepRunnerMarker ==
    (pc \in {"body", "exit", "idle"} /\ locals # <<>>
        /\ locals.skip_if # "") =>
        IF MarkerOnEntry
        THEN /\ locals.status = "skipped"
             /\ ~MarkedOnExit
             /\ pc = "idle" => LastRun.status = "skipped"
        ELSE pc = "idle" =>
             /\ LastRun.status = "success" <=> ~BodyRaised
             /\ MarkedOnExit <=> ~BodyRaised
             /\ MarkedOnExit => ADMIN_CONF \in files
             /\ BodyRaised =>
                    /\ LastRun.status = "failed"
                    /\ ~MarkedOnExit
                    /\ LastRun.raised

\* a first run failed with the marker absent and left none, a second run
\* succeeded and created it, a third run was skipped
C26_FailedThenMarkedThenSkipped ==
    /\ pc = "idle"
    /\ Len(returned) = 3
    /\ returned[1] = [status |-> "failed", raised |-> TRUE]
    /\ returned[2] = [status |-> "success", raised |-> FALSE]
    /\ returned[3].status = "skipped"
    /\ locals.skip_if # ""
    /\ MarkerOnEntry
    /\ ADMIN_CONF \in files

(***************************************************************************)
(* C27.  join_cluster retries a bounded number of times and terminates.    *)
(***************************************************************************)

CallsOf(command) == {n \in 1..Len(trace) : trace[n][1] = command}

TokenReads == {n \in CallsOf("ssm_get") : trace[n][3] = "join-token"}

CaHashReads == {n \in CallsOf("ssm_get") : trace[n][3] = "ca-hash"}

\* the attempts are numbered 1, 2, ... up to JOIN_MAX_RETRIES at most, and
\* every attempt starts by reading the join token
AttemptsBounded ==
    /\ locals.attempt <= JOIN_MAX_RETRIES
    /\ Cardinality(TokenReads) =
           IF pc = "join_token" THEN locals.attempt - 1 ELSE locals.attempt
    /\ \A n \in TokenReads : Cardinality({m \in TokenReads : m <= n}) = trace[n][2]

\* the CA hash is read in the attempts that obtained a token, right after it
CaHashReadAfterToken ==
    /\ \A n \in TokenReads : trace[n][5] # "" =>
           \/ n = Len(trace) /\ pc = "ca_hash"
           \/ n < Len(trace) /\ n + 1 \in CaHashReads
    /\ \A n \in CaHashReads :
           /\ n - 1 \in TokenReads
           /\ trace[n - 1][2] = trace[n][2]
           /\ trace[n - 1][5] # ""

\* kubeadm join runs with the token and the CA hash read in its own attempt
JoinsWithFreshCredentials ==
    \A n \in CallsOf("kubeadm join") :
        /\ trace[n][3] # ""
        /\ trace[n][4] # ""
        /\ n - 2 \in TokenReads
        /\ n - 1 \in CaHashReads
        /\ trace[n - 2] = Called("ssm_get", trace[n][2], "join-token", "",
                                 trace[n][3])
        /\ trace[n - 1] = Called("ssm_get", trace[n][2], "ca-hash", "",
                                 trace[n][4])

\* the first kubeadm join that exits 0 ends the call
ReturnsOnFirstSuccess ==
    /\ \A n \in CallsOf("kubeadm join") : trace[n][5] = "0" =>
           n = Len(trace) /\ returned = <<"return">>
    /\ returned = <<"return">> =>
           Len(trace) \in CallsOf("kubeadm join") /\ trace[Len(trace)][5] = "0"

\* kubeadm reset follows a failed kubeadm join exactly when another attempt
\* is left
ResetBeforeRetry ==
    /\ \A n \in CallsOf("kubeadm join") : trace[n][5] = "1" =>
           IF trace[n][2] < JOIN_MAX_RETRIES
           THEN \/ n = Len(trace) /\ pc = "kubeadm reset"
                \/ n < Len(trace) /\ n + 1 \in CallsOf("kubeadm reset")
           ELSE n = Len(trace)
    /\ \A n \in CallsOf("kubeadm reset") :
           /\ n - 1 \in CallsOf("kubeadm join")
           /\ trace[n - 1][5] = "1"

\* the last attempt ended without a join
Exhausted ==
    /\ trace # <<>>
    /\ trace[Len(trace)][2] = JOIN_MAX_RETRIES
    /\ \/ Len(trace) \in CallsOf("ssm_get") /\ trace[Len(trace)][5] = ""
       \/ Len(trace) \in CallsOf("kubeadm join") /\ trace[Len(trace)][5] = "1"

RaisesWhenExhausted ==
    /\ returned = <<"RuntimeError">> => Exhausted
    /\ (pc = "done" /\ Exhausted) => returned = <<"RuntimeError">>

\* C27: join_cluster makes at most JOIN_MAX_RETRIES attempts, each of which
\* reads the join token again, and the CA hash again once it has a token; it
\* returns at the first kubeadm join that exits 0, runs kubeadm join only
\* with a token and a CA hash obtained in the same attempt, runs kubeadm
\* reset after each failed kubeadm join that another attempt follows, raises
\* RuntimeError once the attempts are exhausted, and always ends.
C27_JoinTerminates ==
    /\ [](/\ AttemptsBounded
          /\ CaHashReadAfterToken
          /\ JoinsWithFreshCredentials
          /\ ReturnsOnFirstSuccess
          /\ ResetBeforeRetry
          /\ RaisesWhenExhausted)
    /\ <>(pc = "done")

\* every attempt was used: one found no token, one found no CA hash, one
\* failed to join and was reset, and RuntimeError was raised
C27_AllAttemptsUsed ==
    /\ pc = "done"
    /\ returned = <<"RuntimeError">>
    /\ locals.attempt = JOIN_MAX_RETRIES
    /\ \E n \in TokenReads : trace[n][5] = ""
    /\ \E n \in CaHashReads : trace[n][5] = ""
    /\ CallsOf("kubeadm reset") # {}

(***************************************************************************)
(* C28.  A run of 02_init_kubeadm that ends without error has the join     *)
(* credentials in SSM.                                                     *)
(***************************************************************************)

Published(name) == \E n \in 1..Len(ssm) : ssm[n][1] = name

CredentialsPublished ==
    /\ Published("join-token")
    /\ Published("ca-hash")
    /\ Published("control-plane-endpoint")

\* C28: whenever an invocation of 02_init_kubeadm finishes without error,
\* as a first-boot success or as a skipped second run, the join token, the
\* CA hash and the control-plane endpoint have been published to SSM by that
\* or an earlier invocation.
C28_CredentialsPublished ==
    (pc = "idle" /\ returned # <<>> /\ ~LastRun.raised) => CredentialsPublished

\* what holds instead: an invocation that ended with status success has
\* published the credentials itself, and a skipped one has written nothing
FirstBootSuccessPublishes ==
    (pc = "idle" /\ returned # <<>>) =>
        /\ LastRun.status = "success" => CredentialsPublished /\ ~LastRun.raised
        /\ LastRun.status = "skipped" => ADMIN_CONF \in files

\* the first run failed after kubeadm init had written admin.conf and
\* before anything was published; the second run was skipped and ended
\* without error, with no credentials in SSM
C28_SkippedWithoutCredentials ==
    /\ pc = "idle"
    /\ Len(returned) = 2
    /\ returned[1] = [status |-> "failed", raised |-> TRUE]
    /\ returned[2] = [status |-> "skipped", raised |-> FALSE]
    /\ ADMIN_CONF \in files
    /\ ssm = <<>>

(***************************************************************************)
(* C29.  Properties absent, null and empty.                                *)
(***************************************************************************)

IsPropertiesEntry(kv) == kv[1] = "Properties"

IsOtherEntry(kv) == kv[1] # "Properties"

\* the resource c with its Properties absent, null and empty
PropertiesVariants(c) ==
    {VDict(SelectSeq(c.d, IsOtherEntry) \o p) : p \in PropertiesForms}

\* C29: for every predicate, a resource whose Properties key is absent, one
\* whose Properties is null and one whose Properties is an empty mapping
\* receive the same verdict.
C29_SameVerdictWithoutProperties ==
    \A n \in 1..Len(verdicts) : \A c \in PropertiesVariants(conf) :
        scan_resource_conf(rule, c) = verdicts[n]

\* what holds instead: every predicate but CKV_CUSTOM_VPC_2 gives the three
\* resources the same verdict and raises on none; CKV_CUSTOM_VPC_2 passes
\* the log group whose Properties is absent or empty and fails the one whose
\* Properties is null
SameVerdictButRetention ==
    \A n \in 1..Len(verdicts) :
        /\ verdicts[n] \in {PASSED, FAILED}
        /\ IF rule = "CKV_CUSTOM_VPC_2"
           THEN verdicts[n] =
                    IF Get(conf, "Properties", EmptyDict) = VNull
                    THEN FAILED ELSE PASSED
           ELSE \A c \in PropertiesVariants(conf) :
                    scan_resource_conf(rule, c) = verdicts[n]

\* the retention rule has failed a log group whose Properties is null, and
\* passes the same log group without the Properties key
C29_NullPropertiesFail ==
    /\ rule = "CKV_CUSTOM_VPC_2"
    /\ HasKey(conf, "Properties")
    /\ Get0(conf, "Properties") = VNull
    /\ verdicts = <<FAILED>>
    /\ \E c \in PropertiesVariants(conf) :
           ~HasKey(c, "Properties") /\ scan_resource_conf(rule, c) = PASSED

(***************************************************************************)
(* C30.  The ingress rules fail a group for one of its rules, whatever the *)
(* others are and wherever it stands.                                      *)
(***************************************************************************)

ItemsOf(q) == {q[n] : n \in 1..Len(q)}

\* the lists of at most MaxList items that hold the same items as q
SameItems(q) ==
    {rs \in SeqsUpTo(ItemsOf(q), MaxList) : ItemsOf(rs) = ItemsOf(q)}

LastVerdict == verdicts[Len(verdicts)]

\* the verdict is the one of every list of the same ingress rules
OrderInsensitive ==
    verdicts # <<>> =>
        /\ LastVerdict \in {PASSED, FAILED}
        /\ \A rs \in SameItems(IngressList(conf)) :
               scan_resource_conf(rule, WithIngressList(conf, rs)) = LastVerdict

\* an edit does not turn FAILED into another verdict
StaysFailed ==
    (verdicts # <<>> /\ LastVerdict = FAILED) =>
        verdicts'[Len(verdicts')] = FAILED

\* C30: CKV_CUSTOM_SG_1, SG_3, SG_4 and SG_5 are monotone and insensitive to
\* order in the ingress list: from any security group with a non-empty
\* property map, after any sequence of appends of well-formed ingress rules
\* and of reorderings, a verdict that was FAILED is still FAILED, and the
\* verdict is that of any other list of the same ingress rules.
C30_IngressMonotone ==
    /\ []OrderInsensitive
    /\ [][StaysFailed]_vars

\* the metrics rule passed a group, failed it once the metrics ports were
\* appended, and fails it still with HTTPS appended and moved to the front
C30_FailedAfterAppendAndReorder ==
    /\ rule = "CKV_CUSTOM_SG_4"
    /\ verdicts = <<PASSED, FAILED, FAILED, FAILED>>
    /\ Len(IngressList(conf)) = 2
    /\ IngressList(conf)[2] = WellFormedRule(9090, 9100, AnyIpv4)

====
